---- MODULE Spec2Model ----
(***************************************************************************)
(* EngineService (src/src/engine/engine.service.ts): the NestJS singleton  *)
(* that owns the Stockfish subprocess and speaks UCI with it, together     *)
(* with its callers.  The Node event loop is modelled as interleaved       *)
(* atomic steps: one step per stretch of code between two awaits that      *)
(* yield to the event loop (a write callback, a timer, a stdout line).     *)
(* The subprocess is the environment: it consumes the commands written to  *)
(* its stdin in order, answers them as UCI prescribes, at its own pace,    *)
(* and may exit at any time.                                               *)
(***************************************************************************)
EXTENDS Integers, Sequences, FiniteSets, TLC

\* ---------------------------------------------------------------- bounds
\* processes the service may spawn in one run
MaxProcs == 3
\* evaluatePosition calls one plain caller makes
MaxCalls == 2
\* spontaneous exits of the subprocess in one run
MaxCrashes == 1
\* iterations of iterative deepening the engine reports before bestmove
SearchIters == 1
\* lines the stdout pipe of a process may still hold when the process exits
MaxPipe == 0

\* evaluatePosition calls each of two concurrent callers makes
ConcCalls == 1

\* lines the engine has written to stdout before the first of them is delivered
MaxWritten == 2

\* lines the buffer holds at most when stdout is fed line by line
MaxBuf == 3
\* the depths and ranks those lines carry (rank 0: the line has no multipv)
ParseDepths == 0..2
ParseRanks == 0..2

\* the greatest depth asked for when the timeout budget is computed
MaxDepth == 30

\* scores the engine reports: centipawns around the classification
\* thresholds and far beyond them, and mates in a few and in many moves
CpValues ==
    LET pos == {10, 11, 20, 21, 25, 26, 50, 51, 100, 101, 300, 301, 350, 351, 9600}
    IN  {0} \cup pos \cup {0 - v : v \in pos}
MateValues == {1, 2, 25, -1, -2, -25}

\* FENs handed to evaluatePosition: two ordinary positions
Fens == {1, 2}
\* and positions in which the game is over: a checkmate, a stalemate or draw
CheckmateFens == {8}
DrawFens == {9}
AllFens == Fens \cup CheckmateFens \cup DrawFens
\* depths requested by plain callers, and by callers of evaluatePositionWithRetry
CallDepths == {20}
RetryDepths == {5, 12, 20}
\* maxRetries they pass
RetryLimits == {2, 3}
\* the positions they ask about
RetryFens == {1}

VARIABLES
    stockfish,        \* this.stockfish: id of the process held, 0 for null
    isReady,          \* this.isReady
    pendingResolve,   \* this.pendingResolve: the caller whose promise it resolves, 0 for null
    currentMessages,  \* this.currentMessages
    proc,             \* the subprocesses spawned so far
    crashes,          \* spontaneous exits so far
    timers,           \* the setTimeout(timeoutMs) callbacks not yet finished: how many
                      \* of each kind
    kind,             \* what each caller runs
    before,           \* how the plain caller's call before the current one was settled
    resBefore,        \* the lines it was resolved with
    pc,               \* where each caller stands
    ret,              \* where initEngine/restartEngine returns to
    fen, depth,       \* arguments of the caller's evaluatePosition call
    res,              \* lines the caller's last call was resolved with
    how,              \* how the caller's last call was settled
    calls,            \* evaluatePosition calls the caller has had settled
    attempt,          \* evaluatePositionWithRetry: attempt
    retryDepth,       \* evaluatePositionWithRetry: its local currentDepth
    maxRetries,       \* evaluatePositionWithRetry: maxRetries
    out,              \* what evaluatePositionWithRetry returned
    rlog,             \* evaluatePositionWithRetry: what it has done so far
    index,            \* analyzeGame: index of the move being analysed
    stage,            \* analyzeGame: which evaluatePosition call of the move is awaited
    evaluatedPositions, \* analyzeGame: what has been pushed for each move so far
    engineResult,     \* analyzeGame: the lines for the position before the move
    whiteAccuracies,  \* analyzeGame
    blackAccuracies,  \* analyzeGame
    positions,        \* analyzeGame: positions.length, the moves of the game
    timeoutMs,        \* evaluatePositionInternal: the budget of the caller's last timer, in ms
    issued,           \* evaluatePosition calls the caller has made
    destroyed,        \* onModuleDestroy has run
    beforeInfo,       \* stdout: the deepest first line of the search of the position before the move
    afterInfo,        \* stdout: the same for the position after the move
    bestLine,         \* analyzeGame: evaluation of engineResult[0] for the move being scored
    userPosEval,      \* analyzeGame: evaluation of userPosEval[0], type "none" when there is no line
    isWhiteTurn,      \* analyzeGame: White played the move being scored
    isBestMove,       \* analyzeGame: the played move is the engine's first move
    bestEvalFromEngine,          \* analyzeGame, line 87
    evalFromOpponentPerspective, \* analyzeGame, line 101
    bestEvalWhitePerspective,    \* analyzeGame, line 88
    userEvalWhitePerspective,    \* analyzeGame, lines 91-108
    cpLoss,           \* analyzeGame, lines 115-125
    classification,   \* analyzeGame, line 138
    isMaterialDown,   \* analyzeGame: hasMaterialSacrifice(previousFen, position.fen, isWhiteTurn)
    scored,           \* analyzeGame: how far the scoring of the move has come
    suggestArgs,      \* getSuggestedMove: its arguments engineLines and fen
    suggested,        \* getSuggestedMove: what it returned or threw
    binaryExists,     \* existsSync(this.stockfishPath)
    written,          \* the stdout stream: the complete lines the engine has written
    stream,           \* the stdout stream: the text not yet delivered in a 'data' event
    handled           \* the stdout handler: the strings handed to handleMessage so far

svcVars == <<stockfish, isReady, pendingResolve, currentMessages>>
envVars == <<proc, crashes>>
callVars == <<kind, before, resBefore, timeoutMs, issued, pc, ret, fen, depth, res, how, calls>>
retryVars == <<attempt, retryDepth, maxRetries, out, rlog>>
gameVars == <<index, stage, evaluatedPositions, engineResult,
              whiteAccuracies, blackAccuracies, positions>>
scoreVars == <<beforeInfo, afterInfo, bestLine, userPosEval, isWhiteTurn, isBestMove,
               isMaterialDown, bestEvalFromEngine, evalFromOpponentPerspective,
               bestEvalWhitePerspective, userEvalWhitePerspective,
               cpLoss, classification, scored>>
suggestVars == <<suggestArgs, suggested>>
stdoutVars == <<written, stream, handled>>
vars == <<svcVars, envVars, timers, callVars, retryVars, gameVars, scoreVars, suggestVars, stdoutVars, destroyed, binaryExists>>

\* a step of the service or of the subprocess leaves its callers' locals alone
Wrap == UNCHANGED <<retryVars, gameVars, scoreVars, suggestVars, stdoutVars, destroyed, binaryExists>>

\* ------------------------------------------------------------- messages
\* The score field of an info line as the engine writes it: "score cp" or
\* "score mate", a minus sign or none, digits; k = "none": no score field.
Score(k, neg, n) == [k |-> k, neg |-> neg, n |-> n]
NoScore == Score("none", FALSE, 0)
\* the score a search of position f reports for its rank m, relative to the
\* side to move in f (the engine is deterministic)
SearchScore(f, m) == IF m = 2 THEN Score("cp", TRUE, 10) ELSE Score("cp", FALSE, 30)
\* One stdout line: t its kind, d the depth and m the multipv rank of an info
\* line, f the position the engine was searching when it wrote the line (its
\* pv move is that of rank m in position f), s its score field.
Info(d, m, f, s) == [t |-> "info", d |-> d, m |-> m, f |-> f, s |-> s]
Msg(t, d, m, f) ==
    [t |-> t, d |-> d, m |-> m, f |-> f,
     s |-> IF t = "info" THEN SearchScore(f, m) ELSE NoScore]
Cmd(c, a) == [c |-> c, a |-> a]

Max(S) == CHOOSE x \in S : \A y \in S : y <= x
Min2(a, b) == IF a < b THEN a ELSE b
Max2(a, b) == IF a > b THEN a ELSE b

\* ------------------------------------------------ parseAnalysisResults
\* One stdout line: t = "info" is a line that starts with "info depth", with a
\* depth and a pv move; "nopv" one that starts with "info depth" and has no pv
\* move (a currmove line); "nodepth" an info line that does not start with
\* "info depth" (an info string line).
\* a parser that does not ask for the pv move
ParsableLoose(msg) == msg.t \in {"info", "nopv"}
\* an info line that passes lines 123 and 131
Parsable(msg) == msg.t = "info"
\* line 134: the rank, 1 when the line carries no multipv
LineId(msg) == IF msg.m = 0 THEN 1 ELSE msg.m
\* lines 128-129 and 137-140: the type and the signed number of the score
\* field; cp 0 when the line has none
Evaluation(s) ==
    [type |-> IF s.k = "mate" THEN "mate" ELSE "cp",
     value |-> IF s.k = "none" THEN 0 ELSE IF s.neg THEN 0 - s.n ELSE s.n]
EngineLine(msg) ==
    [id |-> LineId(msg), depth |-> msg.d, f |-> msg.f, evaluation |-> Evaluation(msg.s)]
\* lines 142-149: per depth, the first line of each rank is kept
RECURSIVE LinesByDepth(_, _)
LinesByDepth(msgs, d) ==
    IF msgs = <<>> THEN <<>>
    ELSE LET rest == LinesByDepth(SubSeq(msgs, 1, Len(msgs) - 1), d)
             last == msgs[Len(msgs)]
         IN  IF Parsable(last) /\ last.d = d
                /\ \A i \in 1..Len(rest) : rest[i].id # LineId(last)
             THEN Append(rest, EngineLine(last))
             ELSE rest
\* line 161: sort by id (ids are distinct within one depth)
RECURSIVE SortById(_)
SortById(ls) ==
    IF ls = <<>> THEN <<>>
    ELSE LET lo == CHOOSE i \in 1..Len(ls) : \A j \in 1..Len(ls) : ls[i].id <= ls[j].id
         IN  <<ls[lo]>> \o SortById(SubSeq(ls, 1, lo - 1) \o SubSeq(ls, lo + 1, Len(ls)))
\* a parser that takes the first depth in ascending order
ShallowestDepth(msgs) ==
    LET ds == {msgs[i].d : i \in {j \in 1..Len(msgs) : Parsable(msgs[j])}}
    IN  IF ds = {} THEN 0 ELSE CHOOSE x \in ds : \A y \in ds : x <= y
\* lines 153-154: the greatest depth with a line, 0 when there is none
BestDepth(msgs) ==
    LET ds == {msgs[i].d : i \in {j \in 1..Len(msgs) : Parsable(msgs[j])}}
    IN  IF ds = {} THEN 0 ELSE Max(ds)
parseAnalysisResults(msgs) ==
    IF BestDepth(msgs) = 0 THEN <<>>
    ELSE SortById(LinesByDepth(msgs, BestDepth(msgs)))

\* ------------------------------------------------------------ processes
ProcIds == 1..MaxProcs
CallerIds == 0..2
NoSearch == [f |-> 0, k |-> 0, n |-> 0]
NoProc == [st |-> "none", inq |-> <<>>, pos |-> 0, search |-> NoSearch, pipe |-> 0]
\* spawn(this.stockfishPath), line 53: a fresh process, nothing written to it yet
Spawned == [st |-> "run", inq |-> <<>>, pos |-> 0, search |-> NoSearch, pipe |-> 0]
Unspawned == {p \in ProcIds : proc[p].st = "none"}
\* the process still has output to deliver: it runs, or it has exited, the
\* close event has not been delivered yet and its pipe still holds lines
Live(p) == proc[p].st = "run" \/ (proc[p].st = "exited" /\ proc[p].pipe > 0)
\* the process exits (on its own, on quit, or killed)
Exited(r) == IF r.st = "run" THEN [r EXCEPT !.st = "exited", !.pipe = MaxPipe] ELSE r
\* the process has delivered one more line
Delivered(r) == IF r.st = "exited" THEN [r EXCEPT !.pipe = @ - 1] ELSE r
Searching(p) == proc[p].search.n > 0
HasHead(p, c) == Live(p) /\ proc[p].inq # <<>> /\ proc[p].inq[1].c = c
\* What the engine does without writing a line it does as soon as the command
\* heads its input, in the step that brings it there: setoption, position, a
\* stop while it is not searching, and the start of a search on go (a go
\* waits for a running search to finish).  MultiPV is 2: each of the n / 2
\* iterations of a search reports two lines.
RECURSIVE Drain(_)
Drain(r) ==
    IF r.inq = <<>> THEN r
    ELSE LET h == r.inq[1] IN
         IF h.c = "setoption" \/ (h.c = "stop" /\ r.search.n = 0)
         THEN Drain([r EXCEPT !.inq = Tail(@)])
         ELSE IF h.c = "position"
         THEN Drain([r EXCEPT !.inq = Tail(@), !.pos = h.a])
         ELSE IF h.c = "go" /\ r.search.n = 0
         THEN Drain([r EXCEPT !.inq = Tail(@),
                              !.search = [f |-> r.pos, k |-> 0,
                                          n |-> 2 * Min2(h.a, SearchIters)]])
         ELSE r
Pop(p) == Delivered(Drain([proc[p] EXCEPT !.inq = Tail(@)]))

\* sendCommand, lines 168-179: the write reaches the process when the handle is
\* set and the process has not exited; otherwise the promise is rejected
SendOk == stockfish # 0 /\ proc[stockfish].st = "run"
Written(cmd) == [proc EXCEPT ![stockfish] = Drain([@ EXCEPT !.inq = Append(@, cmd)])]
\* waitForMessage's test, line 208
HasMessage(t) == \E i \in 1..Len(currentMessages) : currentMessages[i].t = t

\* A timeout callback is "armed" until it fires and in "grace" during its
\* 200 ms pause.  Its owner is the caller whose request armed it while that
\* request is unsettled, 0 afterwards: the callback itself keeps no reference
\* to the request (it reads this.pendingResolve, line 313).
TimerKinds == {"armed", "grace"} \X CallerIds
NoTimers == [k \in TimerKinds |-> 0]
\* the timers of caller c's request outlive the request
Outlived(tm, c) ==
    IF c = 0 THEN tm
    ELSE [k \in TimerKinds |->
            IF k[2] = c THEN 0
            ELSE IF k[2] = 0 THEN tm[k] + tm[<<k[1], c>>]
            ELSE tm[k]]
\* a promise of evaluatePosition is settled: its caller resumes
Settle(c, lines, h) ==
    /\ pc' = [pc EXCEPT ![c] = "ret"]
    /\ res' = [res EXCEPT ![c] = lines]
    /\ how' = [how EXCEPT ![c] = h]
    /\ calls' = [calls EXCEPT ![c] = @ + 1]

\* ------------------------------------------------------- handleMessage
\* lines 91-113, called for every stdout line of every process spawned
handleMessage(msg) ==
    LET buf == Append(currentMessages, msg) IN
    /\ isReady' = (IF msg.t = "readyok" THEN TRUE ELSE isReady)
    /\ IF msg.t = "bestmove" /\ pendingResolve # 0
       THEN /\ Settle(pendingResolve, parseAnalysisResults(buf), "bestmove")
            /\ timers' = Outlived(timers, pendingResolve)
            /\ pendingResolve' = 0
            /\ currentMessages' = <<>>
       ELSE /\ currentMessages' = buf
            /\ UNCHANGED <<pendingResolve, timers, pc, res, how, calls>>
    /\ UNCHANGED <<stockfish, kind, before, resBefore, timeoutMs, issued, ret, fen, depth>>

\* the stdout handler, lines 56-61, handed any one line while a request is
\* pending
ParseScores ==
    {Score("cp", TRUE, 30), Score("mate", FALSE, 2), Score("mate", TRUE, 2), NoScore}
StdoutLines ==
    {Msg("info", d, m, f) : d \in ParseDepths, m \in ParseRanks, f \in Fens}
        \cup {Info(2, 1, 1, s) : s \in ParseScores}
        \cup {Msg("nopv", d, 1, 1) : d \in ParseDepths}
        \cup {Msg("nodepth", 0, 1, 1), Msg("bestmove", 0, 0, 1)}
StdoutLine(msg) ==
    /\ pendingResolve # 0
    /\ Len(currentMessages) < MaxBuf
    /\ handleMessage(msg)
    /\ UNCHANGED envVars
    /\ Wrap

\* -------------------------------------------------- the subprocess (UCI)
Quiet == UNCHANGED <<svcVars, timers, callVars>>
EngineUci(p) ==
    /\ HasHead(p, "uci")
    /\ proc' = [proc EXCEPT ![p] = Pop(p)]
    /\ handleMessage(Msg("uciok", 0, 0, 0))
    /\ UNCHANGED crashes
    /\ Wrap
EngineIsready(p) ==
    /\ HasHead(p, "isready")
    /\ proc' = [proc EXCEPT ![p] = Pop(p)]
    /\ handleMessage(Msg("readyok", 0, 0, 0))
    /\ UNCHANGED crashes
    /\ Wrap
\* the next line of the search: rank 1, then rank 2 of each iteration
EngineInfo(p) ==
    /\ Live(p) /\ Searching(p)
    /\ proc[p].search.k < proc[p].search.n
    /\ proc' = [proc EXCEPT ![p] = Delivered([@ EXCEPT !.search.k = @ + 1])]
    /\ handleMessage(Msg("info", (proc[p].search.k \div 2) + 1,
                         (proc[p].search.k % 2) + 1, proc[p].search.f))
    /\ UNCHANGED crashes
    /\ Wrap
EngineBestmove(p) ==
    /\ Live(p) /\ Searching(p)
    /\ proc[p].search.k = proc[p].search.n
    /\ proc' = [proc EXCEPT ![p] = Delivered(Drain([@ EXCEPT !.search = NoSearch]))]
    /\ handleMessage(Msg("bestmove", 0, 0, proc[p].search.f))
    /\ UNCHANGED crashes
    /\ Wrap
EngineStop(p) ==
    /\ HasHead(p, "stop")
    /\ Searching(p)
    /\ proc' = [proc EXCEPT ![p] =
                  Delivered(Drain([@ EXCEPT !.inq = Tail(@), !.search = NoSearch]))]
    /\ handleMessage(Msg("bestmove", 0, 0, proc[p].search.f))
    /\ UNCHANGED crashes
    /\ Wrap
Crash(p) ==
    /\ proc[p].st = "run"
    /\ crashes < MaxCrashes
    /\ crashes' = crashes + 1
    /\ proc' = [proc EXCEPT ![p] = Exited(@)]
    /\ Quiet
    /\ Wrap
\* a close handler that logs the exit and keeps the handle and the flag
CloseKeepsHandle(p) ==
    /\ proc[p].st = "exited"
    /\ proc' = [proc EXCEPT ![p].st = "closed"]
    /\ UNCHANGED <<svcVars, crashes, timers, callVars>>
    /\ Wrap
\* the 'close' handler installed by initEngine, lines 69-73
Close(p) ==
    /\ proc[p].st = "exited"
    /\ proc' = [proc EXCEPT ![p].st = "closed"]
    /\ stockfish' = 0
    /\ isReady' = FALSE
    /\ UNCHANGED <<pendingResolve, currentMessages, crashes, timers, callVars>>
    /\ Wrap

\* ------------------------------------------------------------ initEngine
\* Each operator below fixes stockfish, isReady, pendingResolve,
\* currentMessages, proc, pc and ret (the "core" variables).
\* lines 43-77: spawn, install the handlers, write uci, start waiting for uciok;
\* r is where the code goes on once initEngine has returned
\* where the error of a failed initEngine surfaces, by where it was called from
ErrPc(r) ==
    CASE r = "bootDone" -> "bootFail"
      [] r = "retryNext" -> "retryCatch"
      [] OTHER -> "threw"
\* lines 53-77
Spawn(c, r) ==
    /\ Unspawned # {}
    /\ LET p == CHOOSE q \in Unspawned : \A o \in Unspawned : q <= o IN
       /\ proc' = [proc EXCEPT ![p] = [Spawned EXCEPT !.inq = <<Cmd("uci", 0)>>]]
       /\ stockfish' = p
    /\ pc' = [pc EXCEPT ![c] = "initUci"]
    /\ ret' = [ret EXCEPT ![c] = r]
    /\ UNCHANGED <<isReady, pendingResolve, currentMessages>>
\* an initEngine that does not look for the binary
initEngineUnchecked(c, r) == Spawn(c, r)
\* lines 45-48: without the binary, the error is thrown before anything else
initEngine(c, r) ==
    IF ~binaryExists
    THEN /\ pc' = [pc EXCEPT ![c] = ErrPc(r)]
         /\ ret' = [ret EXCEPT ![c] = r]
         /\ UNCHANGED <<proc, stockfish, isReady, pendingResolve, currentMessages>>
    ELSE Spawn(c, r)
\* lines 77-81: uciok is in the buffer; setoption and isready are written
\* (sendCommand is not awaited here: a rejected write goes unnoticed)
InitUciOk(c) ==
    /\ pc[c] = "initUci"
    /\ HasMessage("uciok")
    /\ proc' = IF SendOk
               THEN [proc EXCEPT ![stockfish] = Drain([@ EXCEPT !.inq =
                        @ \o <<Cmd("setoption", 0), Cmd("isready", 0)>>])]
               ELSE proc
    /\ pc' = [pc EXCEPT ![c] = "initReady"]
    /\ UNCHANGED <<svcVars, crashes, timers, kind, before, resBefore, timeoutMs, issued, ret, fen, depth, res, how, calls>>
    /\ Wrap
\* lines 82-85: readyok is in the buffer; initEngine returns
InitReadyOk(c) ==
    /\ pc[c] = "initReady"
    /\ HasMessage("readyok")
    /\ isReady' = TRUE
    /\ pc' = [pc EXCEPT ![c] = ret[c]]
    /\ UNCHANGED <<stockfish, pendingResolve, currentMessages,
                   envVars, timers, kind, before, resBefore, timeoutMs, issued, ret, fen, depth, res, how,
                   calls>>
    /\ Wrap
\* waitForMessage, lines 210-211: the 10 s ran out without the token in the buffer
InitTimeout(c) ==
    /\ \/ pc[c] = "initUci" /\ ~HasMessage("uciok")
       \/ pc[c] = "initReady" /\ ~HasMessage("readyok")
    /\ pc' = [pc EXCEPT ![c] = ErrPc(ret[c])]
    /\ UNCHANGED <<svcVars, envVars, timers, kind, before, resBefore, timeoutMs, issued, ret, fen, depth, res, how, calls>>
    /\ Wrap

\* onModuleInit, lines 36-38
OnModuleInit ==
    /\ pc[0] = "boot0"
    /\ initEngine(0, "bootDone")
    /\ UNCHANGED <<crashes, timers, kind, before, resBefore, timeoutMs, issued, fen, depth, res, how, calls>>
    /\ Wrap
Booted == pc[0] = "bootDone"

\* --------------------------------------------------------- restartEngine
\* lines 363-369: quit, kill, drop the handle, then the 500 ms pause; whether it
\* reads the quit or takes the signal, the process is gone
restartEngine(c, r) ==
    /\ IF stockfish # 0
       THEN /\ proc' = [proc EXCEPT ![stockfish] =
                          Exited([@ EXCEPT !.inq = IF proc[stockfish].st = "run"
                                                   THEN Append(@, Cmd("quit", 0)) ELSE @])]
            /\ stockfish' = 0
            /\ isReady' = FALSE
       ELSE UNCHANGED <<proc, stockfish, isReady>>
    /\ pc' = [pc EXCEPT ![c] = "restartDelay"]
    /\ ret' = [ret EXCEPT ![c] = r]
    /\ UNCHANGED <<pendingResolve, currentMessages>>
\* line 370
RestartDelayEnd(c) ==
    /\ pc[c] = "restartDelay"
    /\ initEngine(c, ret[c])
    /\ UNCHANGED <<crashes, timers, kind, before, resBefore, timeoutMs, issued, fen, depth, res, how, calls>>
    /\ Wrap

\* -------------------------------------------------------- onModuleDestroy
\* a shutdown hook that kills the process without writing quit
OnModuleDestroyNoQuit ==
    /\ ~destroyed /\ pc[0] # "boot0"
    /\ destroyed' = TRUE
    /\ IF stockfish # 0
       THEN /\ proc' = [proc EXCEPT ![stockfish] = Exited(@)]
            /\ stockfish' = 0
       ELSE UNCHANGED <<proc, stockfish>>
    /\ UNCHANGED <<isReady, pendingResolve, currentMessages, crashes, timers, callVars,
                   retryVars, gameVars, scoreVars, suggestVars, stdoutVars, binaryExists>>
\* lines 439-445, run once when the application shuts down: quit, kill, drop
\* the handle (the hook can run as soon as onModuleInit has been called)
OnModuleDestroy ==
    /\ ~destroyed /\ pc[0] # "boot0"
    /\ destroyed' = TRUE
    /\ IF stockfish # 0
       THEN /\ proc' = [proc EXCEPT ![stockfish] =
                          Exited([@ EXCEPT !.inq = IF proc[stockfish].st = "run"
                                                   THEN Append(@, Cmd("quit", 0)) ELSE @])]
            /\ stockfish' = 0
       ELSE UNCHANGED <<proc, stockfish>>
    /\ UNCHANGED <<isReady, pendingResolve, currentMessages, crashes, timers, callVars,
                   retryVars, gameVars, scoreVars, suggestVars, stdoutVars, binaryExists>>

\* ------------------------------------------------ evaluatePositionInternal
\* lines 279-285: clear the state, write isready
Body279(c) ==
    /\ currentMessages' = <<>>
    /\ pendingResolve' = 0
    /\ IF SendOk
       THEN proc' = Written(Cmd("isready", 0)) /\ pc' = [pc EXCEPT ![c] = "syncCb"]
       ELSE proc' = proc /\ pc' = [pc EXCEPT ![c] = "L288"]
    /\ UNCHANGED <<stockfish, isReady, ret>>
\* an evaluatePositionInternal that starts a process for every request
evaluatePositionInternalSpawning(c) == initEngine(c, "L279")
\* lines 274-276, then 279-285 when the engine is there and ready
evaluatePositionInternal(c) ==
    IF stockfish = 0 \/ ~isReady THEN initEngine(c, "L279") ELSE Body279(c)
\* lines 293-296: clear the buffer again, write position
Body293(c) ==
    /\ currentMessages' = <<>>
    /\ IF SendOk
       THEN proc' = Written(Cmd("position", fen[c])) /\ pc' = [pc EXCEPT ![c] = "posCb"]
       ELSE proc' = proc /\ pc' = [pc EXCEPT ![c] = "threw"]
    /\ UNCHANGED <<stockfish, isReady, pendingResolve, ret>>
Frame ==
    UNCHANGED <<crashes, timers, kind, before, resBefore, timeoutMs, issued, fen, depth, res, how, calls,
                retryVars, gameVars, scoreVars, suggestVars, stdoutVars, destroyed, binaryExists>>

\* initEngine (called at line 275) has returned
After279(c) == pc[c] = "L279" /\ Body279(c) /\ Frame
\* the write of isready has completed; waitForReady's first check, lines 187-189
SyncCb(c) ==
    /\ pc[c] = "syncCb"
    /\ IF isReady
       THEN Body293(c)
       ELSE /\ pc' = [pc EXCEPT ![c] = "waitReady"]
            /\ UNCHANGED <<svcVars, proc, ret>>
    /\ Frame
\* waitForReady's later checks, every 50 ms
WaitReadyOk(c) == pc[c] = "waitReady" /\ isReady /\ Body293(c) /\ Frame
WaitReadyTimeout(c) ==
    /\ pc[c] = "waitReady" /\ ~isReady
    /\ pc' = [pc EXCEPT ![c] = "L288"]
    /\ UNCHANGED <<svcVars, proc, ret>> /\ Frame
\* lines 287-290: the catch block
Catch288(c) == pc[c] = "L288" /\ restartEngine(c, "L293") /\ Frame
\* restartEngine (called at line 289) has returned
After293(c) == pc[c] = "L293" /\ Body293(c) /\ Frame
\* the write of position has completed; line 297
PosCb(c) ==
    /\ pc[c] = "posCb"
    /\ IF SendOk
       THEN proc' = Written(Cmd("go", depth[c])) /\ pc' = [pc EXCEPT ![c] = "goCb"]
       ELSE proc' = proc /\ pc' = [pc EXCEPT ![c] = "threw"]
    /\ UNCHANGED <<svcVars, ret>> /\ Frame
\* a budget without the clamps
TimeoutUnclamped(d) == 5000 + d * 2000
\* line 300: Math.min(60000, Math.max(15000, 5000 + depth * 2000))
TimeoutFor(d) == Min2(60000, Max2(15000, 5000 + d * 2000))
\* the write of go has completed; lines 300-307: the promise and its timer
GoCb(c) ==
    /\ pc[c] = "goCb"
    /\ pendingResolve' = c
    /\ timers' = [timers EXCEPT ![<<"armed", c>>] = @ + 1]
    /\ pc' = [pc EXCEPT ![c] = "awaiting"]
    /\ timeoutMs' = [timeoutMs EXCEPT ![c] = TimeoutFor(depth[c])]
    /\ UNCHANGED <<stockfish, isReady, currentMessages, envVars,
                   kind, before, resBefore, issued, ret, fen, depth, res, how, calls>>
    /\ Wrap
\* an error thrown inside evaluatePositionInternal rejects evaluatePosition
Threw(c) ==
    /\ pc[c] = "threw"
    /\ Settle(c, <<>>, "error")
    /\ timers' = Outlived(timers, c)
    /\ UNCHANGED <<svcVars, envVars, kind, before, resBefore, timeoutMs, issued, ret, fen, depth>>
    /\ Wrap

\* the timeout callback, lines 307-321
\* lines 308-309: it fires; with a request pending it writes stop
TimerFire(o) ==
    /\ timers[<<"armed", o>>] > 0
    /\ IF pendingResolve = 0
       THEN timers' = [timers EXCEPT ![<<"armed", o>>] = @ - 1] /\ proc' = proc
       ELSE IF SendOk
            THEN timers' = [timers EXCEPT ![<<"armed", o>>] = @ - 1,
                                          ![<<"grace", o>>] = @ + 1]
                 /\ proc' = Written(Cmd("stop", 0))
            ELSE timers' = [timers EXCEPT ![<<"armed", o>>] = @ - 1] /\ proc' = proc
    /\ UNCHANGED <<svcVars, crashes, callVars>>
    /\ Wrap
\* a timeout callback that clears this.pendingResolve before it has taken the
\* resolver out of it, and so resolves nothing
TimerGraceEndDrops(o) ==
    /\ timers[<<"grace", o>>] > 0
    /\ timers' = [timers EXCEPT ![<<"grace", o>>] = @ - 1]
    /\ pendingResolve' = 0
    /\ currentMessages' = <<>>
    /\ UNCHANGED <<stockfish, isReady, envVars, callVars>>
    /\ Wrap
\* lines 311-319: the 200 ms are over
TimerGraceEnd(o) ==
    /\ timers[<<"grace", o>>] > 0
    /\ timers' = Outlived([timers EXCEPT ![<<"grace", o>>] = @ - 1], pendingResolve)
    /\ pendingResolve' = 0
    /\ currentMessages' = <<>>
    /\ IF pendingResolve # 0
       THEN Settle(pendingResolve, parseAnalysisResults(currentMessages), "timeout")
       ELSE UNCHANGED <<pc, res, how, calls>>
    /\ UNCHANGED <<stockfish, isReady, envVars, kind, before, resBefore, timeoutMs, issued, ret, fen, depth>>
    /\ Wrap

\* ------------------------------------------------------ evaluatePosition
\* lines 244-267 for a valid FEN that is not terminal
evaluatePosition(c) ==
    /\ issued' = [issued EXCEPT ![c] = @ + 1]
    /\ evaluatePositionInternal(c)
\* isTerminalPosition, lines 223-239
isTerminalPosition(f) == f \in CheckmateFens \cup DrawFens
\* lines 254-263: the synthetic line
TerminalLine(f, d) ==
    [id |-> 1, depth |-> d, f |-> f, moveUCI |-> "",
     evaluation |-> IF f \in CheckmateFens THEN [type |-> "mate", value |-> 0]
                    ELSE [type |-> "cp", value |-> 0]]
\* calls a plain caller makes: fewer each when two callers run at once
CallLimit == IF kind[2] = "eval" THEN ConcCalls ELSE MaxCalls
\* a request handler calls evaluatePosition(f, d); no request is taken once the
\* application shuts down
Call(c) ==
    /\ kind[c] = "eval"
    /\ Booted
    /\ ~destroyed
    /\ pc[c] \in {"idle", "ret"}
    /\ calls[c] < CallLimit
    /\ \E f \in Fens, d \in CallDepths :
         /\ fen' = [fen EXCEPT ![c] = f]
         /\ depth' = [depth EXCEPT ![c] = d]
    /\ res' = [res EXCEPT ![c] = <<>>]
    /\ before' = [before EXCEPT ![c] = how[c]]
    /\ resBefore' = [resBefore EXCEPT ![c] = res[c]]
    /\ how' = [how EXCEPT ![c] = "none"]
    /\ evaluatePosition(c)
    /\ UNCHANGED <<crashes, timers, kind, timeoutMs, calls>>
    /\ Wrap
\* an evaluatePosition without the check of lines 250-251: the terminal FEN
\* goes to the engine
CallTerminalAsksEngine(c) ==
    /\ kind[c] = "eval"
    /\ Booted
    /\ pc[c] \in {"idle", "ret"}
    /\ calls[c] < CallLimit
    /\ \E f \in CheckmateFens \cup DrawFens, d \in CallDepths :
         /\ fen' = [fen EXCEPT ![c] = f]
         /\ depth' = [depth EXCEPT ![c] = d]
    /\ res' = [res EXCEPT ![c] = <<>>]
    /\ before' = [before EXCEPT ![c] = how[c]]
    /\ resBefore' = [resBefore EXCEPT ![c] = res[c]]
    /\ how' = [how EXCEPT ![c] = "none"]
    /\ issued' = [issued EXCEPT ![c] = @ + 1]
    /\ evaluatePositionInternal(c)
    /\ UNCHANGED <<crashes, timers, kind, timeoutMs, calls>>
    /\ Wrap
\* a request handler calls evaluatePosition(f, d) with a terminal FEN:
\* lines 244-264, the promise resolves in the same step
CallTerminal(c) ==
    /\ kind[c] = "eval"
    /\ Booted
    /\ pc[c] \in {"idle", "ret"}
    /\ calls[c] < CallLimit
    /\ \E f \in AllFens, d \in CallDepths :
         /\ isTerminalPosition(f)
         /\ fen' = [fen EXCEPT ![c] = f]
         /\ depth' = [depth EXCEPT ![c] = d]
         /\ Settle(c, <<TerminalLine(f, d)>>, "terminal")
    /\ issued' = [issued EXCEPT ![c] = @ + 1]
    /\ before' = [before EXCEPT ![c] = how[c]]
    /\ resBefore' = [resBefore EXCEPT ![c] = res[c]]
    /\ UNCHANGED <<svcVars, envVars, timers, kind, timeoutMs, ret>>
    /\ Wrap

\* --------------------------------------------- evaluatePositionWithRetry
\* line 329: the default of maxRetries
DefaultMaxRetries == 3
\* lines 342 and 351: Math.max(8, currentDepth - 4)
MinDepth == 8
DepthStep == 4
Reduced(d) == Max2(MinDepth, d - DepthStep)
Ev(e, d) == [e |-> e, d |-> d]
\* no call of evaluatePosition, initEngine or restartEngine is made
CoreUnchanged == UNCHANGED <<svcVars, proc, ret, issued>>
\* a restart after every empty attempt
RestartAlways == attempt >= 0
\* line 345: the engine is restarted after an empty attempt that was not the first
RestartWanted == attempt > 0
\* a loop test that lets one attempt too many through
MoreAttemptsInclusive == attempt + 1 <= maxRetries
\* line 332: the loop test after attempt++
MoreAttempts == attempt + 1 < maxRetries
\* line 332: attempt++ and the loop test; then line 334 or line 356
LoopNext(c, nd, lg) ==
    /\ attempt' = attempt + 1
    /\ retryDepth' = nd
    /\ IF MoreAttempts
       THEN /\ depth' = [depth EXCEPT ![c] = nd]
            /\ rlog' = Append(lg, Ev("try", nd))
            /\ evaluatePosition(c)
            /\ out' = out
       ELSE /\ pc' = [pc EXCEPT ![c] = "done"]
            /\ out' = <<>>
            /\ rlog' = lg
            /\ depth' = depth
            /\ CoreUnchanged
    /\ UNCHANGED <<crashes, timers, kind, before, resBefore, timeoutMs, fen, res, how, calls, maxRetries, gameVars, scoreVars, suggestVars, stdoutVars, destroyed, binaryExists>>
\* lines 329-334: the first attempt
RetryCall(c) ==
    /\ kind[c] = "retry" /\ Booted /\ pc[c] = "idle"
    /\ \E f \in RetryFens, d \in RetryDepths, m \in RetryLimits :
         /\ fen' = [fen EXCEPT ![c] = f]
         /\ depth' = [depth EXCEPT ![c] = d]
         /\ retryDepth' = d
         /\ maxRetries' = m
         /\ rlog' = <<Ev("try", d)>>
    /\ attempt' = 0
    /\ evaluatePosition(c)
    /\ UNCHANGED <<crashes, timers, kind, before, resBefore, timeoutMs, res, how, calls, out, gameVars, scoreVars, suggestVars, stdoutVars, destroyed, binaryExists>>
\* lines 334-352: evaluatePosition has settled
RetryRet(c) ==
    /\ kind[c] = "retry" /\ pc[c] = "ret"
    /\ IF how[c] = "error"
       THEN LoopNext(c, Reduced(retryDepth), Append(rlog, Ev("error", 0)))
       ELSE IF res[c] # <<>>
       THEN /\ pc' = [pc EXCEPT ![c] = "done"]
            /\ out' = res[c]
            /\ rlog' = Append(rlog, Ev("lines", 0))
            /\ CoreUnchanged
            /\ UNCHANGED <<crashes, timers, kind, before, resBefore, timeoutMs, fen, depth, res, how, calls,
                           attempt, retryDepth, maxRetries, gameVars, scoreVars, suggestVars, stdoutVars, destroyed, binaryExists>>
       ELSE IF RestartWanted
       THEN /\ retryDepth' = Reduced(retryDepth)
            /\ rlog' = rlog \o <<Ev("empty", 0), Ev("restart", 0)>>
            /\ restartEngine(c, "retryNext")
            /\ UNCHANGED <<crashes, timers, kind, before, resBefore, timeoutMs, issued, fen, depth, res, how, calls,
                           attempt, maxRetries, out, gameVars, scoreVars, suggestVars, stdoutVars, destroyed, binaryExists>>
       ELSE LoopNext(c, Reduced(retryDepth), Append(rlog, Ev("empty", 0)))
\* restartEngine (called at line 347) has returned
RetryNext(c) == pc[c] = "retryNext" /\ LoopNext(c, retryDepth, rlog)
\* lines 349-352: restartEngine has thrown
RetryCatch(c) ==
    /\ pc[c] = "retryCatch"
    /\ LoopNext(c, Reduced(retryDepth), Append(rlog, Ev("restartFailed", 0)))

\* ------------------------------------- evaluations and classifications
NoEval == [type |-> "none", value |-> 0]
Evaluations ==
    {[type |-> "cp", value |-> v] : v \in CpValues}
        \cup {[type |-> "mate", value |-> v] : v \in MateValues}
Abs(x) == IF x < 0 THEN 0 - x ELSE x
Sign(x) == IF x > 0 THEN 1 ELSE IF x < 0 THEN 0 - 1 ELSE 0
\* AnalysisService.ts, lines 173-180
evalToCP(evalObj) ==
    IF evalObj.type = "mate"
    THEN Sign(evalObj.value) * (10000 - Abs(evalObj.value) * 20)
    ELSE evalObj.value
\* chess.service.ts, lines 169-226; an argument left out is the empty set, one
\* given is the set of its value
classifyMove(evaluationDelta, previousEval, currentEval, isBest) ==
    IF isBest THEN "best"
    ELSE IF evaluationDelta < -150 /\ previousEval # {}
                /\ \A v \in previousEval : v <= 100 THEN "brilliant"
    ELSE IF evaluationDelta < -50 /\ evaluationDelta >= -150 THEN "great"
    ELSE IF evaluationDelta >= 0 /\ evaluationDelta <= 20 THEN "excellent"
    ELSE IF evaluationDelta > 20 /\ evaluationDelta <= 50 THEN "good"
    ELSE IF evaluationDelta > 50 /\ evaluationDelta <= 100 THEN "inaccuracy"
    ELSE IF evaluationDelta > 100 /\ evaluationDelta <= 300 THEN "mistake"
    ELSE IF evaluationDelta > 300 THEN "blunder"
    ELSE IF evaluationDelta < 0 /\ evaluationDelta >= -50 THEN "excellent"
    ELSE "good"
\* a boolean handed over where a number is expected compares as 1 or 0
AsNumber(b) == IF b THEN 1 ELSE 0
\* a conversion that negates whatever the side to move
AlwaysNegated(white, v) == 0 - v
\* AnalysisService.ts, line 88 and line 104: to White's perspective
WhitePerspective(white, v) == IF white THEN v ELSE 0 - v
\* AnalysisService.ts, lines 138-146: the call of line 138 hands isBestMove
\* over as the second argument of classifyMove (previousEval); sacrifice is
\* the test of line 143
classificationOf(loss, best, sacrifice) ==
    LET cls == classifyMove(loss, {AsNumber(best)}, {}, FALSE)
    IN  IF cls = "best" /\ sacrifice THEN "brilliant" ELSE cls

\* ----------------------------------------------------------- analyzeGame
\* src/src/chess/AnalysisService.ts, lines 17-168, for a PGN that validatePgn
\* accepts.  Position i of the game has FEN i: the move at index i is played
\* in FEN i + 1 and leads to FEN i + 2.
NumMoves == 1
\* line 96: Math.min(depth, 12)
AfterDepthCap == 12
\* moves of the longer game
LongGameMoves == 2
GameFrame == UNCHANGED <<crashes, timers, kind, before, resBefore, timeoutMs, res, how, calls, retryVars, scoreVars, suggestVars, stdoutVars, destroyed, binaryExists, positions>>
\* line 30: the game starts from the initial position, White moves first
WhiteMoves(i) == i % 2 = 0
\* what is pushed to evaluatedPositions: the position of the turn of the loop
\* (the played move index + 1 and what it led to), the classification, the evaluation
\* and suggestedMove.uci (the engine's move of rank id in position f; f = 0:
\* the empty string)
NoMove == [f |-> 0, id |-> 0]
MoveOf(line) == [f |-> line.f, id |-> line.id]
Entry(cls, ev, mv) ==
    [position |-> index + 1, classification |-> cls, evaluation |-> ev, suggestedMove |-> mv]
\* lines 41-42 and 134-135: the accuracy of the move joins its side's list
PushAccuracy(a) ==
    IF WhiteMoves(index)
    THEN whiteAccuracies' = Append(whiteAccuracies, a) /\ UNCHANGED blackAccuracies
    ELSE blackAccuracies' = Append(blackAccuracies, a) /\ UNCHANGED whiteAccuracies
\* a loop that goes on to the next call without awaiting the one before
GameIterNoAwait(c) ==
    /\ kind[c] = "game" /\ Booted /\ pc[c] \in {"loop", "awaiting"}
    /\ index < positions
    /\ fen' = [fen EXCEPT ![c] = index + 1]
    /\ \E d \in CallDepths : depth' = [depth EXCEPT ![c] = d]
    /\ stage' = "before"
    /\ evaluatePosition(c)
    /\ UNCHANGED <<index, evaluatedPositions, engineResult, whiteAccuracies, blackAccuracies>>
    /\ GameFrame
\* lines 28-48: one turn of the loop; the opening book may know the position
GameIter(c) ==
    /\ kind[c] = "game" /\ Booted /\ pc[c] = "loop"
    /\ index < positions
    /\ \E book \in BOOLEAN :
         IF book
         THEN /\ evaluatedPositions' =
                   Append(evaluatedPositions,
                          Entry("book", [type |-> "cp", value |-> 0], NoMove))
              /\ PushAccuracy("100")
              /\ index' = index + 1
              /\ UNCHANGED <<stage, engineResult, fen, depth, pc>>
              /\ CoreUnchanged
         ELSE /\ fen' = [fen EXCEPT ![c] = index + 1]
              /\ \E d \in CallDepths : depth' = [depth EXCEPT ![c] = d]
              /\ stage' = "before"
              /\ evaluatePosition(c)
              /\ UNCHANGED <<index, evaluatedPositions, engineResult,
                             whiteAccuracies, blackAccuracies>>
    /\ GameFrame
\* lines 159-167: the report
GameDone(c) ==
    /\ kind[c] = "game" /\ pc[c] = "loop"
    /\ index = positions
    /\ pc' = [pc EXCEPT ![c] = "done"]
    /\ CoreUnchanged
    /\ UNCHANGED <<fen, depth, gameVars>> /\ GameFrame
\* a loop that takes an empty result for a move the engine has no better
\* move for: the move counts as best, with full accuracy
ForcedAsBest(c) ==
    /\ evaluatedPositions' =
          Append(evaluatedPositions, Entry("best", [type |-> "cp", value |-> 0], NoMove))
    /\ PushAccuracy("100")
    /\ engineResult' = res[c]
    /\ index' = index + 1
    /\ pc' = [pc EXCEPT ![c] = "loop"]
    /\ CoreUnchanged
    /\ UNCHANGED <<fen, depth, stage>>
\* a loop that pushes nothing for a move the engine has no lines for
ForcedSkipped(c) ==
    /\ UNCHANGED <<evaluatedPositions, whiteAccuracies, blackAccuracies>>
    /\ engineResult' = res[c]
    /\ index' = index + 1
    /\ pc' = [pc EXCEPT ![c] = "loop"]
    /\ CoreUnchanged
    /\ UNCHANGED <<fen, depth, stage>>
\* lines 50-59: no lines for the position before the move
Forced(c) ==
    /\ evaluatedPositions' =
          Append(evaluatedPositions, Entry("forced", [type |-> "cp", value |-> 0], NoMove))
    /\ UNCHANGED <<whiteAccuracies, blackAccuracies>>
    /\ engineResult' = res[c]
    /\ index' = index + 1
    /\ pc' = [pc EXCEPT ![c] = "loop"]
    /\ CoreUnchanged
    /\ UNCHANGED <<fen, depth, stage>>
\* lines 48-156: evaluatePosition has settled; a rejection leaves analyzeGame.
\* played is the rank the played move has among the engine's moves in the
\* position (3: none of the two reported); a move that is the engine's first
\* has lost nothing (lines 91 and 117-125); "classified" stands for what
\* lines 98-146 make of the two evaluations, "moveAccuracy" for the value of
\* lines 131-132
GameRet(c) ==
    /\ kind[c] = "game" /\ pc[c] = "ret"
    /\ IF how[c] = "error"
       THEN /\ pc' = [pc EXCEPT ![c] = "failed"]
            /\ CoreUnchanged
            /\ UNCHANGED <<fen, depth, gameVars>>
       ELSE IF stage = "before" /\ res[c] = <<>>
       THEN Forced(c)
       ELSE IF stage = "before"
       THEN \E played \in 1..3, sacrifice \in BOOLEAN :
              /\ engineResult' = res[c]
              /\ IF res[c][1].f = fen[c] /\ res[c][1].id = played
                 THEN /\ evaluatedPositions' =
                           Append(evaluatedPositions,
                                  Entry(classificationOf(0, TRUE, sacrifice),
                                        res[c][1].evaluation, MoveOf(res[c][1])))
                      /\ PushAccuracy("moveAccuracy")
                      /\ index' = index + 1
                      /\ pc' = [pc EXCEPT ![c] = "loop"]
                      /\ CoreUnchanged
                      /\ UNCHANGED <<fen, depth, stage>>
                 ELSE /\ fen' = [fen EXCEPT ![c] = index + 2]
                      /\ depth' = [depth EXCEPT ![c] = Min2(depth[c], AfterDepthCap)]
                      /\ stage' = "after"
                      /\ evaluatePosition(c)
                      /\ UNCHANGED <<index, evaluatedPositions,
                                     whiteAccuracies, blackAccuracies>>
       ELSE /\ evaluatedPositions' =
                 Append(evaluatedPositions,
                        Entry("classified", engineResult[1].evaluation,
                              MoveOf(engineResult[1])))
            /\ PushAccuracy("moveAccuracy")
            /\ index' = index + 1
            /\ pc' = [pc EXCEPT ![c] = "loop"]
            /\ CoreUnchanged
            /\ UNCHANGED <<fen, depth, stage, engineResult>>
    /\ GameFrame

\* --------------------------------------------- analyzeGame: scoring a move
\* lines 111-146: the loss and the classification, from the two evaluations
\* in White's perspective
Classified(bestW, userW) ==
    LET loss == Max2(0, IF isWhiteTurn THEN bestW - userW ELSE userW - bestW) IN
    /\ bestEvalWhitePerspective' = bestW
    /\ userEvalWhitePerspective' = userW
    /\ cpLoss' = loss
    /\ classification' = classificationOf(loss, isBestMove,
                                           isMaterialDown /\ Abs(bestW) < 500)
ScoreFrame ==
    UNCHANGED <<svcVars, envVars, timers, callVars, retryVars, gameVars, suggestVars, stdoutVars, destroyed, binaryExists,
                beforeInfo, afterInfo, isWhiteTurn, isBestMove, isMaterialDown>>
\* what evaluatePosition returns for a search whose deepest first line is msg
LinesOf(msg) == parseAnalysisResults(<<msg>>)
\* the position after the move is terminal: evaluatePosition asks no engine
GameOver(f) == Msg("terminal", 0, 0, f)
\* what evaluatePosition(position.fen, Math.min(depth, 12)) returns
AfterLines ==
    IF afterInfo.t = "terminal"
    THEN <<TerminalLine(afterInfo.f, Min2(20, AfterDepthCap))>>
    ELSE LinesOf(afterInfo)
\* lines 61-154 when the played move is the engine's first move
ScoreBest ==
    /\ scored = "in" /\ isBestMove
    /\ bestLine' = LinesOf(beforeInfo)[1].evaluation
    /\ bestEvalFromEngine' = evalToCP(LinesOf(beforeInfo)[1].evaluation)
    /\ Classified(WhitePerspective(isWhiteTurn, evalToCP(LinesOf(beforeInfo)[1].evaluation)),
                  WhitePerspective(isWhiteTurn, evalToCP(LinesOf(beforeInfo)[1].evaluation)))
    /\ scored' = "done"
    /\ UNCHANGED <<userPosEval, evalFromOpponentPerspective>>
    /\ ScoreFrame
\* lines 61-96 when it is not: the position after the move is sent to the engine
ScoreAwait ==
    /\ scored = "in" /\ ~isBestMove
    /\ bestLine' = LinesOf(beforeInfo)[1].evaluation
    /\ bestEvalFromEngine' = evalToCP(LinesOf(beforeInfo)[1].evaluation)
    /\ scored' = "after"
    /\ UNCHANGED <<userPosEval, evalFromOpponentPerspective, bestEvalWhitePerspective,
                   userEvalWhitePerspective, cpLoss, classification>>
    /\ ScoreFrame
\* lines 98-154: the engine has answered, with a line or with none
ScoreUser ==
    /\ scored = "after"
    /\ IF AfterLines # <<>>
       THEN /\ userPosEval' = AfterLines[1].evaluation
            /\ evalFromOpponentPerspective' = evalToCP(AfterLines[1].evaluation)
            /\ Classified(WhitePerspective(isWhiteTurn, bestEvalFromEngine),
                          WhitePerspective(~isWhiteTurn,
                                           evalToCP(AfterLines[1].evaluation)))
       ELSE /\ UNCHANGED <<userPosEval, evalFromOpponentPerspective>>
            /\ Classified(WhitePerspective(isWhiteTurn, bestEvalFromEngine),
                          IF isWhiteTurn THEN 0 - 3000 ELSE 3000)
    /\ scored' = "done"
    /\ UNCHANGED <<bestLine, bestEvalFromEngine>>
    /\ ScoreFrame

\* ------------------------------------------------------- getSuggestedMove
\* moveUCI of a line: the engine's move of rank id in position f, the empty
\* string for the synthetic line of a terminal position
UciOf(line) == IF "moveUCI" \in DOMAIN line THEN NoMove ELSE MoveOf(line)
\* convertUCItoSAN, lines 413-425: the SAN of the move when chess.js accepts
\* it as a move of the position given, the UCI string itself otherwise
convertUCItoSAN(uci, f) ==
    IF uci # NoMove /\ uci.f = f
    THEN [notation |-> "san", move |-> uci]
    ELSE [notation |-> "uci", move |-> uci]
NoSuggestion == [status |-> "none", san |-> convertUCItoSAN(NoMove, 0), uci |-> NoMove]
Thrown(m) == [status |-> m, san |-> convertUCItoSAN(NoMove, 0), uci |-> NoMove]
Returned(san, uci) == [status |-> "returned", san |-> san, uci |-> uci]
\* engineLines as handed over: a list of lines, or nothing (null, undefined)
Given(ls) == [present |-> TRUE, lines |-> ls]
Missing == [present |-> FALSE, lines |-> <<>>]
\* a getSuggestedMove that takes the last line
getSuggestedMoveLast(a, f) ==
    IF ~a.present \/ Len(a.lines) = 0
    THEN Thrown("No engine lines available")
    ELSE Returned(convertUCItoSAN(UciOf(a.lines[Len(a.lines)]), f),
                  UciOf(a.lines[Len(a.lines)]))
\* lines 396-408
getSuggestedMove(a, f) ==
    IF ~a.present \/ Len(a.lines) = 0
    THEN Thrown("No engine lines available")
    ELSE Returned(convertUCItoSAN(UciOf(a.lines[1]), f), UciOf(a.lines[1]))
\* a caller calls getSuggestedMove(engineLines, fen)
GetSuggestedMove ==
    /\ suggested = NoSuggestion /\ suggestArgs.fen # 0
    /\ suggested' = getSuggestedMove(suggestArgs.engineLines, suggestArgs.fen)
    /\ UNCHANGED <<svcVars, envVars, timers, callVars, retryVars, gameVars, scoreVars,
                   destroyed, binaryExists, stdoutVars, suggestArgs>>
\* the lines evaluatePosition can return: what the parser makes of a buffer
\* of up to two lines of depths 1 and 2, and the line of a terminal position
SuggestMsgs == {Msg("info", d, m, f) : d \in 1..2, m \in 1..2, f \in Fens}
SuggestLines ==
    {parseAnalysisResults(<<>>)}
        \cup {parseAnalysisResults(<<x>>) : x \in SuggestMsgs}
        \cup {parseAnalysisResults(<<x, y>>) : x \in SuggestMsgs, y \in SuggestMsgs}
        \cup {<<TerminalLine(f, d)>> : f \in CheckmateFens \cup DrawFens, d \in CallDepths}
NotSuggesting ==
    /\ suggestArgs = [engineLines |-> Missing, fen |-> 0]
    /\ suggested = NoSuggestion
\* the last entry of k asks for a call of getSuggestedMove: its arguments are
\* drawn
SuggestingOf(k) ==
    IF k[Len(k)] # "suggest" THEN NotSuggesting
    ELSE /\ suggestArgs \in [engineLines : {Missing} \cup {Given(ls) : ls \in SuggestLines},
                              fen : AllFens]
         /\ suggested = NoSuggestion

\* ------------------------------------------------- the stdout handler
\* Text is a sequence of pieces of text; a line is text without a newline.
Newline == "\n"
EngineTexts ==
    {<<"ready", "ok">>, <<"uci", "ok">>, <<"bestmove", " e2e4">>,
     <<"info depth 1", " multipv 1", " pv e2e4">>}
\* what the engine writes for its lines: each followed by a newline
RECURSIVE WrittenText(_)
WrittenText(ls) ==
    IF ls = <<>> THEN <<>> ELSE ls[1] \o <<Newline>> \o WrittenText(Tail(ls))
\* line 57: data.toString().split('\n').filter(line => line.trim()), cur
\* being the piece begun and acc the pieces found so far
RECURSIVE SplitLines(_, _, _)
SplitLines(data, cur, acc) ==
    LET found == IF cur = <<>> THEN acc ELSE Append(acc, cur) IN
    IF data = <<>> THEN found
    ELSE IF data[1] = Newline THEN SplitLines(Tail(data), <<>>, found)
    ELSE SplitLines(Tail(data), Append(cur, data[1]), acc)
\* lines 56-61: a 'data' event delivers the next n pieces of the stream as
\* one chunk; each string the split finds is handed to handleMessage
OnData ==
    /\ \E n \in 1..Len(stream) :
         /\ handled' = handled \o SplitLines(SubSeq(stream, 1, n), <<>>, <<>>)
         /\ stream' = SubSeq(stream, n + 1, Len(stream))
    /\ UNCHANGED <<svcVars, envVars, timers, callVars, retryVars, gameVars, scoreVars,
                   suggestVars, destroyed, binaryExists, written>>
NoStream == written = <<>> /\ stream = <<>> /\ handled = <<>>
\* the last entry of k asks for a stream: the engine has written up to
\* MaxWritten lines, none of them delivered yet
StreamOf(k) ==
    IF k[Len(k)] # "stdout" THEN NoStream
    ELSE /\ written \in UNION {[1..n -> EngineTexts] : n \in 1..MaxWritten}
         /\ stream = WrittenText(written)
         /\ handled = <<>>

\* the binary is removed from the disk while the application runs
BinaryRemoved ==
    /\ Booted
    /\ binaryExists
    /\ binaryExists' = FALSE
    /\ UNCHANGED <<svcVars, envVars, timers, callVars, retryVars, gameVars, scoreVars,
                   suggestVars, stdoutVars, destroyed>>

\* ------------------------------------------------------- specifications
\* the scores the engine reports for the two positions of a move
RawScores ==
    {Score("cp", v < 0, Abs(v)) : v \in CpValues}
        \cup {Score("mate", v < 0, Abs(v)) : v \in MateValues}
        \cup {NoScore}
NoInfo == Msg("none", 0, 0, 0)
\* the score of a position in which the side to move can mate at once
MateInOne == Score("mate", FALSE, 1)
\* no move is being scored
NotScoring ==
    /\ beforeInfo = NoInfo /\ afterInfo = NoInfo
    /\ bestLine = NoEval /\ userPosEval = NoEval
    /\ isWhiteTurn = TRUE /\ isBestMove = FALSE /\ isMaterialDown = FALSE
    /\ bestEvalFromEngine = 0 /\ evalFromOpponentPerspective = 0
    /\ bestEvalWhitePerspective = 0 /\ userEvalWhitePerspective = 0
    /\ cpLoss = 0 /\ classification = "none" /\ scored = "off"
\* the third entry of k, when there is one, asks for a move to be scored: the
\* first line of the search of the position before it (FEN 1), the first
\* line of the search of the position after it (FEN 2; a line without a pv
\* move: the engine layer returns no lines), and what kind of move it is,
\* are drawn
ScoringOf(k) ==
    IF k[Len(k)] # "score" THEN NotScoring
    ELSE /\ beforeInfo \in {Info(1, 1, 1, sc) : sc \in RawScores}
         /\ afterInfo \in {Info(1, 1, 2, sc) : sc \in RawScores} \cup {Msg("nopv", 1, 1, 2)}
                            \cup {GameOver(f) : f \in CheckmateFens \cup DrawFens}
         /\ afterInfo.f \in CheckmateFens => beforeInfo.s = MateInOne
         /\ bestLine = NoEval /\ userPosEval = NoEval
         /\ isWhiteTurn \in BOOLEAN /\ isBestMove \in BOOLEAN
         /\ isMaterialDown \in BOOLEAN
         /\ bestEvalFromEngine = 0 /\ evalFromOpponentPerspective = 0
         /\ bestEvalWhitePerspective = 0 /\ userEvalWhitePerspective = 0
         /\ cpLoss = 0 /\ classification = "none" /\ scored = "in"
InitWith(k) ==
    /\ stockfish = 0 /\ isReady = FALSE /\ pendingResolve = 0
    /\ currentMessages = <<>>
    /\ proc = [p \in ProcIds |-> NoProc]
    /\ crashes = 0
    /\ timers = NoTimers
    /\ kind = [c \in CallerIds |-> IF c = 0 THEN "boot" ELSE IF c = 1 THEN k[1] ELSE k[2]]
    /\ pc = [c \in CallerIds |-> IF c = 0 THEN "boot0"
                                 ELSE IF k[c] = "game" THEN "loop" ELSE "idle"]
    /\ ret = [c \in CallerIds |-> "none"]
    /\ fen = [c \in CallerIds |-> 0]
    /\ depth = [c \in CallerIds |-> 0]
    /\ res = [c \in CallerIds |-> <<>>]
    /\ how = [c \in CallerIds |-> "none"]
    /\ before = [c \in CallerIds |-> "none"]
    /\ resBefore = [c \in CallerIds |-> <<>>]
    /\ calls = [c \in CallerIds |-> 0]
    /\ attempt = 0 /\ retryDepth = 0 /\ maxRetries = 0 /\ out = <<>> /\ rlog = <<>>
    /\ index = 0 /\ stage = "none" /\ evaluatedPositions = <<>>
    /\ engineResult = <<>> /\ whiteAccuracies = <<>> /\ blackAccuracies = <<>>
    /\ positions = (IF k[1] # "game" THEN 0
                    ELSE IF k[Len(k)] = "long" THEN LongGameMoves ELSE NumMoves)
    /\ timeoutMs = [c \in CallerIds |-> 0]
    /\ issued = [c \in CallerIds |-> 0]
    /\ destroyed = FALSE
    /\ ScoringOf(k)
    /\ SuggestingOf(k)
    /\ StreamOf(k)
    /\ binaryExists \in (IF k[Len(k)] = "binary" THEN BOOLEAN ELSE {TRUE})

\* the engine answering, while it runs and from what its pipe still holds
EngineStep ==
    \E p \in ProcIds :
        \/ EngineUci(p) \/ EngineIsready(p) \/ EngineInfo(p)
        \/ EngineBestmove(p) \/ EngineStop(p)
Boot == OnModuleInit \/ InitUciOk(0) \/ InitReadyOk(0) \/ InitTimeout(0)
\* evaluatePositionInternal on an engine that stays up
EvalStep(c) == SyncCb(c) \/ PosCb(c) \/ GoCb(c)
\* its recovery paths
RecoverStep(c) ==
    \/ InitUciOk(c) \/ InitReadyOk(c) \/ InitTimeout(c)
    \/ After279(c) \/ WaitReadyOk(c) \/ WaitReadyTimeout(c)
    \/ Catch288(c) \/ RestartDelayEnd(c) \/ After293(c) \/ Threw(c)
TimerStep == \E o \in CallerIds : TimerFire(o) \/ TimerGraceEnd(o)
Crashes == \E p \in ProcIds : Crash(p)
Closes == \E p \in ProcIds : Close(p)

\* one request handler, its calls one after the other, on an engine that may exit
InitSeq == InitWith(<<"eval", "off">>)
NextSeq ==
    \/ Boot \/ Call(1) \/ EvalStep(1) \/ RecoverStep(1)
    \/ TimerStep \/ EngineStep \/ Crashes \/ Closes
SpecSeq == InitSeq /\ [][NextSeq]_vars

\* one request handler, its calls one after the other, on an engine that
\* stays up and answers
NextHealthy == Boot \/ Call(1) \/ EvalStep(1) \/ TimerStep \/ EngineStep
SpecHealthy == InitSeq /\ [][NextHealthy]_vars

\* the same under the scheduling of the event loop and of the operating
\* system: a timer that is due fires, a callback that is ready runs, a live
\* engine goes on with what it was sent, an exit is followed by its 'close'
SpecSeqFair ==
    /\ InitSeq /\ [][NextSeq]_vars
    /\ WF_vars(Boot) /\ WF_vars(EvalStep(1)) /\ WF_vars(RecoverStep(1))
    /\ WF_vars(TimerStep) /\ WF_vars(EngineStep) /\ WF_vars(Closes)

\* the same, the binary there at the start or not, and removable later
InitBinary == InitWith(<<"eval", "off", "binary">>)
NextBinary ==
    \/ Boot \/ Call(1) \/ EvalStep(1) \/ RecoverStep(1)
    \/ TimerStep \/ EngineStep \/ Crashes \/ Closes \/ BinaryRemoved
SpecBinary == InitBinary /\ [][NextBinary]_vars

\* the same, the application shutting down at any moment
NextDestroy ==
    \/ Boot \/ Call(1) \/ EvalStep(1) \/ RecoverStep(1)
    \/ TimerStep \/ EngineStep \/ Crashes \/ Closes \/ OnModuleDestroy
SpecDestroy == InitSeq /\ [][NextDestroy]_vars

\* two request handlers at once, the engine staying up
Init == InitWith(<<"eval", "eval">>)
Next ==
    \/ Boot \/ \E c \in {1, 2} : Call(c) \/ CallTerminal(c) \/ EvalStep(c)
    \/ TimerStep \/ EngineStep
Spec == Init /\ [][Next]_vars

\* one request handler on an engine that stays alive and, once it searches,
\* reports lines but never ends the search: no bestmove, no answer to stop.
\* Timers of the event loop that are due do fire.
NextMute ==
    \/ Boot \/ Call(1) \/ EvalStep(1) \/ TimerStep
    \/ \E p \in ProcIds : EngineUci(p) \/ EngineIsready(p) \/ EngineInfo(p)
SpecMute == InitSeq /\ [][NextMute]_vars /\ WF_vars(TimerStep)

\* one caller of evaluatePositionWithRetry; the engine exits only when it is
\* restarted
InitRetry == InitWith(<<"retry", "off">>)
NextRetry ==
    \/ Boot \/ EvalStep(1) \/ RecoverStep(1)
    \/ TimerStep \/ EngineStep \/ Closes
    \/ RetryCall(1) \/ RetryRet(1) \/ RetryNext(1) \/ RetryCatch(1)
SpecRetry == InitRetry /\ [][NextRetry]_vars

\* one analyzeGame run, on an engine that may exit
InitGame == InitWith(<<"game", "off">>)
NextGame ==
    \/ Boot \/ EvalStep(1) \/ RecoverStep(1)
    \/ TimerStep \/ EngineStep \/ Crashes \/ Closes
    \/ GameIter(1) \/ GameRet(1) \/ GameDone(1)
SpecGame == InitGame /\ [][NextGame]_vars

\* one analyzeGame run over a game of two moves, on an engine that stays up
InitLong == InitWith(<<"game", "off", "long">>)
NextLong ==
    \/ Boot \/ EvalStep(1) \/ TimerStep \/ EngineStep
    \/ GameIter(1) \/ GameRet(1) \/ GameDone(1)
SpecLong == InitLong /\ [][NextLong]_vars

\* the stdout stream of the engine, delivered in chunks of any sizes
InitStdout == InitWith(<<"off", "off", "stdout">>)
NextStdout == OnData
SpecStdout == InitStdout /\ [][NextStdout]_vars

\* one call of getSuggestedMove
InitSuggest == InitWith(<<"off", "off", "suggest">>)
NextSuggest == GetSuggestedMove
SpecSuggest == InitSuggest /\ [][NextSuggest]_vars

\* the parser: a request awaits the engine's answer (go written, resolver
\* stored, timer armed) and stdout delivers lines of any shape
InitParse ==
    /\ stockfish = 1 /\ isReady = TRUE /\ pendingResolve = 1
    /\ currentMessages = <<>>
    /\ proc = [p \in ProcIds |->
                 IF p = 1 THEN [Spawned EXCEPT !.pos = 1,
                                               !.search = [f |-> 1, k |-> 0, n |-> 2]]
                 ELSE NoProc]
    /\ crashes = 0
    /\ timers = [NoTimers EXCEPT ![<<"armed", 1>>] = 1]
    /\ kind = [c \in CallerIds |-> IF c = 0 THEN "boot" ELSE IF c = 1 THEN "eval" ELSE "off"]
    /\ pc = [c \in CallerIds |-> IF c = 0 THEN "bootDone"
                                 ELSE IF c = 1 THEN "awaiting" ELSE "idle"]
    /\ ret = [c \in CallerIds |-> "none"]
    /\ fen = [c \in CallerIds |-> IF c = 1 THEN 1 ELSE 0]
    /\ depth = [c \in CallerIds |-> IF c = 1 THEN 20 ELSE 0]
    /\ res = [c \in CallerIds |-> <<>>]
    /\ how = [c \in CallerIds |-> "none"]
    /\ before = [c \in CallerIds |-> "none"]
    /\ resBefore = [c \in CallerIds |-> <<>>]
    /\ calls = [c \in CallerIds |-> 0]
    /\ attempt = 0 /\ retryDepth = 0 /\ maxRetries = 0 /\ out = <<>> /\ rlog = <<>>
    /\ index = 0 /\ stage = "none" /\ evaluatedPositions = <<>>
    /\ engineResult = <<>> /\ whiteAccuracies = <<>> /\ blackAccuracies = <<>>
    /\ positions = 0
    /\ timeoutMs = [c \in CallerIds |-> IF c = 1 THEN TimeoutFor(20) ELSE 0]
    /\ issued = [c \in CallerIds |-> IF c = 1 THEN 1 ELSE 0]
    /\ destroyed = FALSE
    /\ NotScoring
    /\ NotSuggesting
    /\ NoStream
    /\ binaryExists = TRUE
NextParse == \E msg \in StdoutLines : StdoutLine(msg)
SpecParse == InitParse /\ [][NextParse]_vars

\* the timeout budget: two requests of any depths, the go of each written
\* (they overlap as in C1), each about to store its resolver and arm its timer
InitBudget ==
    /\ stockfish = 1 /\ isReady = TRUE /\ pendingResolve = 0
    /\ currentMessages = <<>>
    /\ \E d1, d2 \in 0..MaxDepth :
         /\ depth = [c \in CallerIds |-> IF c = 1 THEN d1 ELSE IF c = 2 THEN d2 ELSE 0]
         /\ proc = [p \in ProcIds |->
                      IF p = 1 THEN Drain([Spawned EXCEPT !.inq =
                                        <<Cmd("position", 1), Cmd("go", d1),
                                          Cmd("position", 2), Cmd("go", d2)>>])
                      ELSE NoProc]
    /\ crashes = 0
    /\ timers = NoTimers
    /\ kind = [c \in CallerIds |-> IF c = 0 THEN "boot" ELSE "eval"]
    /\ pc = [c \in CallerIds |-> IF c = 0 THEN "bootDone" ELSE "goCb"]
    /\ ret = [c \in CallerIds |-> "none"]
    /\ fen = [c \in CallerIds |-> c]
    /\ res = [c \in CallerIds |-> <<>>]
    /\ how = [c \in CallerIds |-> "none"]
    /\ before = [c \in CallerIds |-> "none"]
    /\ resBefore = [c \in CallerIds |-> <<>>]
    /\ calls = [c \in CallerIds |-> 0]
    /\ attempt = 0 /\ retryDepth = 0 /\ maxRetries = 0 /\ out = <<>> /\ rlog = <<>>
    /\ index = 0 /\ stage = "none" /\ evaluatedPositions = <<>>
    /\ engineResult = <<>> /\ whiteAccuracies = <<>> /\ blackAccuracies = <<>>
    /\ positions = 0
    /\ timeoutMs = [c \in CallerIds |-> 0]
    /\ issued = [c \in CallerIds |-> IF c = 0 THEN 0 ELSE 1]
    /\ destroyed = FALSE
    /\ NotScoring
    /\ NotSuggesting
    /\ NoStream
    /\ binaryExists = TRUE
NextBudget == \E c \in {1, 2} : GoCb(c)
SpecBudget == InitBudget /\ [][NextBudget]_vars

\* the scoring of one move of a game, from the evaluations the engine returned
InitScore == InitWith(<<"game", "off", "score">>)
NextScore == ScoreBest \/ ScoreAwait \/ ScoreUser
SpecScore == InitScore /\ [][NextScore]_vars

\* ------------------------------------------------------------ properties
Callers == {1, 2}
\* callers whose go has been written and whose request is not settled
InFlight == {c \in Callers : pc[c] \in {"goCb", "awaiting"}}
\* the ranks of a result
Ids(ls) == {ls[i].id : i \in 1..Len(ls)}
GraceTotal(tm) == tm[<<"grace", 0>>] + tm[<<"grace", 1>>] + tm[<<"grace", 2>>]
\* what evaluatePositionWithRetry has done: its attempts, their depths
TryAt == {i \in 1..Len(rlog) : rlog[i].e = "try"}
TriesUpTo(i) == Cardinality({j \in TryAt : j <= i})
Happened(e) == \E i \in 1..Len(rlog) : rlog[i].e = e

\* C1: at most one analysis is in flight on the service: while the go of one
\* caller is unanswered and its request unsettled, no other caller has
\* written a go
C1_OneAnalysisInFlight == Cardinality(InFlight) <= 1

\* C2: when the call before ended by timeout, every line a call is resolved
\* with comes from the search of the position that call asked about
C2_NoStaleOutput ==
    \A c \in Callers :
        (before[c] = "timeout" /\ pc[c] = "ret" /\ how[c] # "error")
            => \A i \in 1..Len(res[c]) : res[c][i].f = fen[c]

\* C3: with an engine that stays alive and never ends its search, a call that
\* awaits the engine's answer is resolved by its timeout, and that leaves no
\* pending resolver and an empty buffer (so does the call that follows it)
C3_MuteEngineTimesOut ==
    (pc[1] = "awaiting")
        ~> (pc[1] = "ret" /\ how[1] = "timeout"
            /\ pendingResolve = 0 /\ currentMessages = <<>>)
\* the call that followed a timed-out call has itself run to completion
C3_Witness ==
    /\ calls[1] = 2 /\ pc[1] = "ret"
    /\ before[1] = "timeout" /\ how[1] = "timeout"
    /\ pendingResolve = 0 /\ currentMessages = <<>>

\* C4: when the timeout of the pending request fires, stop is written and the
\* grace period begins; when a grace period ends with a request pending, that
\* request is resolved with the lines parsed from the buffer
C4_TimeoutStopsAndResolves ==
    [][\A c \in Callers :
         /\ (/\ pendingResolve = c /\ pendingResolve' = c
             /\ timers'[<<"armed", c>>] < timers[<<"armed", c>>])
                => (/\ timers'[<<"grace", c>>] > timers[<<"grace", c>>]
                    /\ stockfish # 0 /\ proc[stockfish].st = "run")
         /\ (pendingResolve = c /\ GraceTotal(timers') < GraceTotal(timers))
                => (/\ pc'[c] = "ret" /\ how'[c] = "timeout"
                    /\ res'[c] = parseAnalysisResults(currentMessages))]_vars

\* C5: analyzeGame is not left by an engine error
C5_GameNeverFails == pc[1] # "failed"

\* C6: the close event clears the handle and the ready flag; a call that finds
\* no handle spawns a process and starts the handshake; position and go are
\* written only to the running process the handle holds, the service being
\* ready; a process that has exited is written nothing
C6_DeadProcessReplaced ==
    [][/\ \A p \in ProcIds :
            (proc[p].st = "exited" /\ proc'[p].st = "closed")
                => (stockfish' = 0 /\ ~isReady')
       /\ \A c \in Callers :
            (pc[c] \in {"idle", "ret"} /\ pc'[c] # pc[c] /\ stockfish = 0)
                => (/\ pc'[c] = "initUci"
                    /\ stockfish' # 0
                    /\ proc[stockfish'].st = "none"
                    /\ proc'[stockfish'].st = "run"
                    /\ proc'[stockfish'].inq = <<Cmd("uci", 0)>>)
       /\ \A c \in Callers :
            (pc'[c] # pc[c] /\ pc'[c] \in {"posCb", "goCb"})
                => (/\ stockfish # 0 /\ stockfish' = stockfish
                    /\ proc[stockfish].st = "run" /\ isReady)
       /\ \A p \in ProcIds :
            proc[p].st \in {"exited", "closed"}
                => Len(proc'[p].inq) <= Len(proc[p].inq)]_vars
\* the process exited and was closed before the first call; the call went
\* through initEngine (line 275) and has written position and go to the
\* process spawned then
C6_Witness ==
    /\ calls[1] = 0 /\ pc[1] = "awaiting" /\ ret[1] = "L279"
    /\ proc[1].st = "closed"
    /\ stockfish = 2 /\ proc[2].st = "run" /\ proc[2].pos = fen[1]

\* C7: evaluatePositionWithRetry starts at most maxRetries attempts, returns
\* the lines of the first attempt that yields any and the empty list when
\* none does, and is never left by an error
C7_RetryBounded ==
    /\ Cardinality(TryAt) <= maxRetries
    /\ pc[1] # "failed"
    /\ \A i \in 1..Len(rlog) :
          rlog[i].e = "lines" => (i = Len(rlog) /\ pc[1] = "done")
    /\ pc[1] = "done" =>
          IF rlog[Len(rlog)].e = "lines"
          THEN out = res[1] /\ out # <<>>
          ELSE out = <<>> /\ Cardinality(TryAt) = maxRetries
\* all attempts used up, one of them thrown out of evaluatePosition, the
\* restart between two of them failed: the empty list is returned
C7_Witness ==
    /\ pc[1] = "done" /\ out = <<>> /\ maxRetries = 3
    /\ Happened("error") /\ Happened("restartFailed")

\* C8: after an attempt other than the first has returned no lines the engine
\* is restarted at once; after the first attempt has returned no lines the
\* second follows without a restart
C8_RestartAfterLaterFailures ==
    \A i \in 1..Len(rlog) :
        rlog[i].e = "empty" =>
            (TriesUpTo(i) > 1 <=> (i < Len(rlog) /\ rlog[i + 1].e = "restart"))
\* C8 as stated: between an attempt that returned no lines and the attempt
\* that follows it the engine is restarted, the first failed attempt included
C8_RestartBetweenAttempts ==
    \A i \in 1..Len(rlog) :
        (rlog[i].e = "empty" /\ \E j \in TryAt : j > i)
            => rlog[i + 1].e = "restart"
\* the second attempt returned no lines, the engine was restarted, the third
\* attempt has begun
C8_Witness ==
    \E i \in 1..Len(rlog) :
        /\ rlog[i].e = "empty" /\ TriesUpTo(i) = 2
        /\ i + 2 <= Len(rlog)
        /\ rlog[i + 1].e = "restart" /\ rlog[i + 2].e = "try"

\* C9: every attempt after the first runs at depth max(8, d - 4), d being the
\* depth of the attempt before it
C9_OneDecrementPerAttempt ==
    \A i, j \in TryAt :
        (i < j /\ \A k \in TryAt : ~(i < k /\ k < j))
            => rlog[j].d = Reduced(rlog[i].d)

\* C10: the ranks of a non-empty result are 1..k
C10_RanksContiguous ==
    \A c \in Callers : Ids(res[c]) = 1..Len(res[c])

\* the lines of the buffer that the parser reads
ParsableAt(msgs) == {i \in 1..Len(msgs) : Parsable(msgs[i])}

\* C11: every line parseAnalysisResults returns is the line of a parseable
\* message of the buffer whose depth no parseable message of the buffer
\* exceeds; the ranks of the lines returned are distinct and ascending
C11_DeepestOnly ==
    LET r == parseAnalysisResults(currentMessages)
        at == ParsableAt(currentMessages)
    IN  /\ \A i \in 1..Len(r) :
              /\ \E j \in at : r[i] = EngineLine(currentMessages[j])
              /\ \A j \in at : currentMessages[j].d <= r[i].depth
        /\ \A i, j \in 1..Len(r) : i < j => r[i].id < r[j].id
\* the buffer holds a line of depth 1 and a line of each rank of depth 2, and
\* the two lines of depth 2 are returned
C11_Witness ==
    LET r == parseAnalysisResults(currentMessages)
        at == ParsableAt(currentMessages)
    IN  /\ Len(r) = 2 /\ r[1].depth = 2 /\ Len(currentMessages) = MaxBuf
        /\ \E j \in at : currentMessages[j].d = 1
        /\ pc[1] = "awaiting"

\* a line with a depth and a pv move
HasDepthAndMove(msg) == msg.t \notin {"nopv", "nodepth"}
\* a line with a depth, a pv move and a rank
HasDepthRankAndMove(msg) == HasDepthAndMove(msg) /\ ~(msg.t = "info" /\ msg.m = 0)
\* C12: the lines of the buffer without a depth or without a pv move change
\* nothing in what parseAnalysisResults returns (it returns what it returns
\* for the buffer without them), and a request resolved from a buffer that
\* holds such lines is resolved, not rejected; a line with a depth and a pv
\* move and without a rank counts as a line of rank 1: when it is the first
\* such line of its depth and no line is deeper, it is the first line returned
C12_MalformedSkipped ==
    /\ parseAnalysisResults(currentMessages)
          = parseAnalysisResults(SelectSeq(currentMessages, HasDepthAndMove))
    /\ \A j \in ParsableAt(currentMessages) :
          (/\ currentMessages[j].m = 0 /\ currentMessages[j].d > 0
           /\ \A i \in ParsableAt(currentMessages) :
                 /\ currentMessages[i].d <= currentMessages[j].d
                 /\ (i < j /\ currentMessages[i].d = currentMessages[j].d)
                        => currentMessages[i].m = 2)
              => parseAnalysisResults(currentMessages)[1]
                    = [id |-> 1, depth |-> currentMessages[j].d, f |-> currentMessages[j].f,
                       evaluation |-> Evaluation(currentMessages[j].s)]
    /\ how[1] # "error" /\ pc[1] # "threw"
\* C12 as stated: the lines without a depth, without a rank or without a pv
\* move change nothing in what parseAnalysisResults returns
C12_RanklessSkipped ==
    parseAnalysisResults(currentMessages)
        = parseAnalysisResults(SelectSeq(currentMessages, HasDepthRankAndMove))
\* a line without a pv move at depth 2, a line that does not start with
\* "info depth" and a line of depth 1 and rank 2: the last one alone is returned
C12_Witness ==
    /\ Len(currentMessages) = 3
    /\ \E i \in 1..3 : currentMessages[i].t = "nopv" /\ currentMessages[i].d = 2
    /\ \E i \in 1..3 : currentMessages[i].t = "nodepth"
    /\ \E i \in 1..3 : currentMessages[i] = Msg("info", 1, 2, 1)
    /\ parseAnalysisResults(currentMessages) = <<EngineLine(Msg("info", 1, 2, 1))>>

\* commands written to process p that it has not answered or consumed yet
Unanswered(p, c) == \E i \in 1..Len(proc[p].inq) : proc[p].inq[i].c = c

\* C13: initEngine goes on to setoption and isready only when the process it
\* holds has answered uci, and returns with the session marked ready only
\* when that process has answered uci and isready
C13_HandshakeOfNewProcess ==
    [][\A c \in CallerIds :
         /\ (pc[c] = "initUci" /\ pc'[c] = "initReady" /\ stockfish # 0)
                => ~Unanswered(stockfish, "uci")
         /\ (pc[c] = "initReady" /\ pc'[c] = ret[c] /\ stockfish # 0)
                => (~Unanswered(stockfish, "uci") /\ ~Unanswered(stockfish, "isready"))]_vars

\* caller c's evaluatePosition call has begun the restart of line 289, or is
\* past it
PastSync(c) ==
    \/ pc[c] \in {"L293", "posCb", "goCb", "awaiting", "threw"}
    \/ pc[c] \in {"restartDelay", "initUci", "initReady"} /\ ret[c] = "L293"

\* C14: when the wait for uciok or readyok times out, the process held not
\* having answered, initEngine ends with an error and the session is not
\* marked ready; when the wait for the ready flag
\* times out, the session is not ready and the catch block is entered; a call
\* that has begun its restart never comes back to the catch block, so that at
\* most one restart is made within one call and a failure of that restart
\* surfaces
C14_BoundedWaitFails ==
    [][\A c \in CallerIds :
         /\ (/\ pc[c] \in {"initUci", "initReady"} /\ stockfish # 0
             /\ Unanswered(stockfish, IF pc[c] = "initUci" THEN "uci" ELSE "isready")
             /\ pc'[c] \notin {"initUci", "initReady", ret[c]})
                => (pc'[c] \in {"threw", "bootFail", "retryCatch"} /\ ~isReady')
         /\ (pc[c] = "waitReady" /\ pc'[c] \notin {"waitReady", "posCb", "threw"})
                => (pc'[c] = "L288" /\ ~isReady')
         /\ PastSync(c) => pc'[c] # "L288"
         /\ (pc[c] = "L288" /\ pc'[c] # "L288")
                => (pc'[c] = "restartDelay" /\ ret'[c] = "L293")]_vars

\* C15: a call of evaluatePosition with a terminal FEN is settled in the step
\* of the call with the one synthetic line (rank 1, the depth asked for, no
\* move); nothing is written to a process, and the handle, the ready flag,
\* the buffer, the pending resolver and the timers stay as they are
C15_TerminalTouchesNothing ==
    [][\A c \in Callers :
         (/\ pc[c] \in {"idle", "ret"}
          /\ fen'[c] \in CheckmateFens \cup DrawFens
          /\ (pc'[c] # pc[c] \/ calls'[c] # calls[c]))
            => (/\ pc'[c] = "ret"
                /\ Len(res'[c]) = 1
                /\ res'[c][1].id = 1 /\ res'[c][1].depth = depth'[c]
                /\ res'[c][1].moveUCI = ""
                /\ res'[c][1].evaluation.value = 0
                /\ res'[c][1].evaluation.type
                      = (IF fen'[c] \in CheckmateFens THEN "mate" ELSE "cp")
                /\ UNCHANGED <<stockfish, isReady, pendingResolve, currentMessages,
                               proc, timers>>)]_vars
\* a terminal FEN is answered while the other caller's request is in flight,
\* lines of its search in the buffer
C15_Witness ==
    /\ pc[2] = "ret" /\ how[2] = "terminal" /\ fen[2] \in CheckmateFens
    /\ pc[1] = "awaiting" /\ pendingResolve = 1
    /\ currentMessages # <<>> /\ timers[<<"armed", 1>>] = 1

\* C16: once the engine has been restarted (the handle holds a running
\* process, the session is ready), the close event of a process other than
\* the one held leaves the handle and the ready flag as they are
C16_LateCloseHarmless ==
    [][\A p \in ProcIds :
         (/\ proc[p].st = "exited" /\ proc'[p].st = "closed"
          /\ stockfish \notin {0, p} /\ proc[stockfish].st = "run" /\ isReady
          /\ \E c \in Callers : ret[c] \in {"L293", "retryNext"}
                                 /\ pc[c] \notin {"restartDelay", "initUci", "initReady"})
            => (stockfish' = stockfish /\ isReady')]_vars

\* C17: onModuleDestroy returns from every state of the session without an
\* error reaching anyone; when the handle holds a running process, quit is
\* written to that process and the process is terminated; no other process
\* is touched; afterwards the service holds no handle
C17_DestroyFromAnyState ==
    [][(~destroyed /\ destroyed') =>
         /\ stockfish' = 0
         /\ pc' = pc /\ how' = how
         /\ \A p \in ProcIds :
              IF p = stockfish /\ proc[p].st = "run"
              THEN /\ proc'[p].st = "exited"
                   /\ proc'[p].inq = Append(proc[p].inq, Cmd("quit", 0))
              ELSE proc'[p] = proc[p]]_vars
\* the service has been shut down while a request was awaiting the engine's
\* answer: the process was written quit and has exited, the handle is dropped
C17_Witness ==
    /\ destroyed /\ stockfish = 0
    /\ pc[1] = "awaiting" /\ pendingResolve = 1
    /\ \E p \in ProcIds :
          /\ proc[p].st = "exited" /\ proc[p].inq # <<>>
          /\ proc[p].inq[Len(proc[p].inq)] = Cmd("quit", 0)

\* callers whose timer has been armed
Armed == {c \in Callers : pc[c] = "awaiting"}

\* C18: the budget of an armed timer lies between 15 s and 60 s; of two
\* requests the deeper one has no smaller budget; depth 20 has a larger
\* budget than depth 10
C18_BudgetMonotoneAndClamped ==
    /\ \A c \in Armed : 15000 <= timeoutMs[c] /\ timeoutMs[c] <= 60000
    /\ \A c, e \in Armed :
          /\ depth[c] <= depth[e] => timeoutMs[c] <= timeoutMs[e]
          /\ (depth[c] = 10 /\ depth[e] = 20) => timeoutMs[c] < timeoutMs[e]
\* timers armed for a request of depth 10 and for one of depth 20
C18_Witness ==
    /\ Armed = {1, 2}
    /\ depth[1] = 10 /\ depth[2] = 20
    /\ timeoutMs[1] = 25000 /\ timeoutMs[2] = 45000

\* both evaluations of a move that is not the engine's first have been
\* converted
Converted == scored = "done" /\ ~isBestMove /\ userPosEval # NoEval
IsMate(e, S) == e.type = "mate" /\ e.value \in S

\* C19: evalToCP puts a mate for the side to move above every centipawn
\* score and a mate against it below every centipawn score, and of two mates
\* for the side to move the shorter one higher, of two mates against it the
\* shorter one lower
C19_MateOutranksCp ==
    Converted =>
        /\ (IsMate(bestLine, 1..25) /\ userPosEval.type = "cp")
              => bestEvalFromEngine > evalFromOpponentPerspective
        /\ (bestLine.type = "cp" /\ IsMate(userPosEval, -25..-1))
              => bestEvalFromEngine > evalFromOpponentPerspective
        /\ (/\ IsMate(bestLine, 1..25) /\ IsMate(userPosEval, 1..25)
            /\ bestLine.value < userPosEval.value)
              => bestEvalFromEngine > evalFromOpponentPerspective
        /\ (/\ IsMate(bestLine, -25..-1) /\ IsMate(userPosEval, -25..-1)
            /\ bestLine.value < userPosEval.value)
              => bestEvalFromEngine > evalFromOpponentPerspective

\* C20: a move that is not the engine's first move (and not a book move) is
\* classified by its centipawn loss: excellent up to 10, good up to 25,
\* inaccuracy up to 100, mistake up to 350, blunder above
C20_DocumentedThresholds ==
    (scored = "done" /\ ~isBestMove) =>
        classification =
            (IF cpLoss <= 10 THEN "excellent"
             ELSE IF cpLoss <= 25 THEN "good"
             ELSE IF cpLoss <= 100 THEN "inaccuracy"
             ELSE IF cpLoss <= 350 THEN "mistake"
             ELSE "blunder")

\* C21: a move that is the engine's first move is classified best, or
\* brilliant when it gives up material in a position that is not won; the
\* loss thresholds give it no label
C21_BestMoveIsBest ==
    (scored = "done" /\ isBestMove) => classification \in {"best", "brilliant"}

\* the number of a score field, and whether White is to move in the position
\* a line is about (FEN 1 before the move, FEN 2 after it)
Signed(sc) == IF sc.neg THEN 0 - sc.n ELSE sc.n
WhiteToMove(msg) == IF msg.f = 1 THEN isWhiteTurn ELSE ~isWhiteTurn
\* the evaluation has the type and the signed number of the score field
AsReported(ev, sc) == sc.k # "none" => (ev.type = sc.k /\ ev.value = Signed(sc))

C23_SequentialEvaluation ==
    [][\A c \in Callers :
         (kind[c] = "game" /\ issued'[c] # issued[c])
            => (/\ issued'[c] = issued[c] + 1
                /\ calls[c] = issued[c]
                /\ pendingResolve # c
                /\ timers[<<"armed", c>>] = 0 /\ timers[<<"grace", c>>] = 0)]_vars
\* the call for the position after the move has been made, after the call
\* for the position before it was resolved with lines, and is awaiting the
\* engine's answer
C23_Witness ==
    /\ kind[1] = "game" /\ stage = "after"
    /\ issued[1] = 2 /\ calls[1] = 1 /\ pc[1] = "awaiting"

\* the best move of a result: the move of its first line (the engine's move
\* of that rank in that position), none for the empty result
BestMove(lines) == IF lines = <<>> THEN <<>> ELSE <<lines[1].f, lines[1].id>>

\* C24: when a call was resolved on the engine's bestmove and returned a best
\* move, and the next call asks about the same position, that call, settled
\* before its own timer has fired, returns the same best move
C24_SameRequestSameBestMove ==
    [][\A c \in Callers :
         (/\ calls[c] = 1 /\ calls'[c] = 2
          /\ timers[<<"armed", c>>] = 1
          /\ before[c] = "bestmove"
          /\ resBefore[c] # <<>> /\ resBefore[c][1].f = fen[c])
            => BestMove(res'[c]) = BestMove(resBefore[c])]_vars

\* C25: once the service has started, and as long as the subprocess has not
\* exited on its own, no step of a call of evaluatePosition spawns a process
\* or ends one, and the handle keeps holding the process spawned at startup
C25_HealthyProcessReused ==
    [][(Booted /\ crashes' = 0) =>
         /\ stockfish' = stockfish /\ stockfish # 0
         /\ \A p \in ProcIds :
              /\ proc[p].st = "none" => proc'[p].st = "none"
              /\ proc[p].st = "run" => proc'[p].st = "run"]_vars
\* two calls in a row, each resolved on the engine's bestmove with lines, all
\* on the process spawned at startup, which is the only one ever spawned
C25_Witness ==
    /\ calls[1] = 2 /\ pc[1] = "ret"
    /\ before[1] = "bestmove" /\ how[1] = "bestmove"
    /\ resBefore[1] # <<>> /\ res[1] # <<>>
    /\ crashes = 0 /\ stockfish = 1 /\ proc[1].st = "run"
    /\ \A p \in ProcIds \ {1} : proc[p].st = "none"

\* C26: when the call for the position before a move is resolved with no
\* lines, analyzeGame pushes the move as forced, with evaluation cp 0 and an
\* empty suggested move, pushes no accuracy, makes no call for the position
\* after the move and goes on to the next turn of the loop
C26_NoLinesForced ==
    [][\A c \in Callers :
         (/\ kind[c] = "game" /\ pc[c] = "ret" /\ pc'[c] # "ret"
          /\ stage = "before" /\ how[c] # "error" /\ res[c] = <<>>)
            => (/\ evaluatedPositions' =
                      Append(evaluatedPositions,
                             [position |-> index + 1,
                              classification |-> "forced",
                              evaluation |-> [type |-> "cp", value |-> 0],
                              suggestedMove |-> NoMove])
                /\ whiteAccuracies' = whiteAccuracies
                /\ blackAccuracies' = blackAccuracies
                /\ index' = index + 1
                /\ pc'[c] = "loop"
                /\ issued'[c] = issued[c])]_vars
\* the first move of a game of two was pushed as forced, without an accuracy,
\* and the position before the second move is with the engine
C26_Witness ==
    /\ kind[1] = "game" /\ positions = 2 /\ index = 1
    /\ Len(evaluatedPositions) = 1
    /\ evaluatedPositions[1].classification = "forced"
    /\ whiteAccuracies = <<>> /\ blackAccuracies = <<>>
    /\ pc[1] = "awaiting" /\ stage = "before" /\ fen[1] = 2 /\ issued[1] = 2

\* the lines of rank 1 of a list
RankOne(ls) == {i \in 1..Len(ls) : ls[i].id = 1}

\* C27: getSuggestedMove returns the move of the line of rank 1 of the lines
\* it is given; given an empty list or none, it throws "No engine lines
\* available"; it leaves the service, the processes and the timers as they
\* are
C27_SuggestedMoveOfRankOne ==
    [][(suggested = NoSuggestion /\ suggested' # NoSuggestion) =>
         LET a == suggestArgs.engineLines IN
         /\ (~a.present \/ a.lines = <<>>)
               => suggested'.status = "No engine lines available"
         /\ \A i \in RankOne(a.lines) :
               /\ suggested'.status = "returned"
               /\ suggested'.uci = UciOf(a.lines[i])
         /\ UNCHANGED <<stockfish, isReady, pendingResolve, currentMessages, proc, timers>>]_vars
\* given the lines of ranks 1 and 2 of a search of position 1, and position
\* 1, it has returned the move of rank 1
C27_Witness ==
    /\ suggestArgs.fen = 1
    /\ Len(suggestArgs.engineLines.lines) = 2
    /\ suggestArgs.engineLines.lines[2].id = 2
    /\ suggested = Returned([notation |-> "san", move |-> [f |-> 1, id |-> 1]],
                            [f |-> 1, id |-> 1])

\* caller c enters initEngine in this step: from onModuleInit, from
\* evaluatePositionInternal finding no engine or no ready engine, or after
\* the pause of restartEngine
EntersInitEngine(c) ==
    /\ pc'[c] # pc[c]
    /\ \/ pc[c] = "boot0"
       \/ pc[c] = "restartDelay"
       \/ pc[c] \in {"idle", "ret"} /\ (stockfish = 0 \/ ~isReady)

\* the test of line 274: a handle and the flag
SessionReady == stockfish # 0 /\ isReady

\* C28: when the binary is absent, initEngine throws before it spawns a
\* process or writes a command; it leaves the handle and the flag isReady as
\* they are, and the session is not ready before it or after it
C28_BinaryAbsentFailsFirst ==
    [][\A c \in CallerIds :
         (~binaryExists /\ EntersInitEngine(c)) =>
            /\ pc'[c] \in {"bootFail", "threw", "retryCatch"}
            /\ proc' = proc
            /\ stockfish' = stockfish
            /\ isReady' = isReady
            /\ ~SessionReady /\ ~SessionReady']_vars
\* the binary went away while the application ran, the engine exited, and
\* the next request's initEngine threw
C28_Witness ==
    /\ ~binaryExists
    /\ Booted
    /\ pc[1] = "threw" /\ ret[1] = "L279"
    /\ stockfish = 0 /\ ~isReady

\* C29: a timeout callback acts on the request it was armed for only: when
\* it writes stop, and when it resolves the pending request after its pause,
\* the pending request is the one that armed it
C29_TimerActsOnOwnRequest ==
    [][\A o \in CallerIds :
         pendingResolve # 0 =>
            /\ (TimerFire(o) /\ proc' # proc) => o = pendingResolve
            /\ TimerGraceEnd(o) => o = pendingResolve]_vars

\* C30: a call of evaluatePosition that awaits its result is settled in the
\* end, resolved or rejected, whatever happens to the subprocess meanwhile
C30_EveryCallSettles == (pc[1] = "awaiting") ~> (pc[1] # "awaiting")

\* C31: the resolver stored in pendingResolve is taken out of it only by the
\* step that invokes it: a step that clears it or stores another one over it
\* settles the call it belonged to
C31_ResolverKeptUntilInvoked ==
    [][(pendingResolve # 0 /\ pendingResolve' # pendingResolve) =>
         /\ pc'[pendingResolve] = "ret"
         /\ calls'[pendingResolve] = calls[pendingResolve] + 1]_vars

\* the subprocesses spawned by the service that have not exited
Alive == {p \in ProcIds : proc[p].st = "run"}

\* C32: at most one subprocess spawned by the service is alive at any moment
C32_AtMostOneAlive == Cardinality(Alive) <= 1

\* an isready the service wrote is still unanswered: the process it holds has
\* not read it yet
IsreadyUnanswered ==
    /\ stockfish # 0
    /\ \E i \in 1..Len(proc[stockfish].inq) : proc[stockfish].inq[i].c = "isready"

\* C33: the step of evaluatePositionInternal that goes on from the wait of
\* line 286 to the write of position is taken only when the engine has
\* answered the isready of line 285
C33_PositionAfterReadyok ==
    [][\A c \in Callers :
         (pc[c] \in {"syncCb", "waitReady"} /\ pc'[c] = "posCb") => ~IsreadyUnanswered]_vars

\* a bestmove line reaches handleMessage in this step
BestmoveArrives == \E p \in ProcIds : EngineBestmove(p) \/ EngineStop(p)

\* the buffer holds an info line
HoldsInfo(buf) == \E i \in 1..Len(buf) : buf[i].t = "info"

\* C34: when a bestmove arrives while a request is pending, that request is
\* resolved in that step, once, with the lines parsed from the buffer, the
\* resolver is cleared and the buffer emptied; and the buffer holds the
\* output received since the go of that request only: when the go is
\* written, no info line is in the buffer
C34_BestmoveResolvesSinceGo ==
    [][/\ (BestmoveArrives /\ pendingResolve # 0) =>
            LET c == pendingResolve IN
            /\ pc'[c] = "ret" /\ how'[c] = "bestmove"
            /\ calls'[c] = calls[c] + 1
            /\ res'[c] = parseAnalysisResults(currentMessages)
            /\ pendingResolve' = 0 /\ currentMessages' = <<>>
       /\ \A c \in Callers :
            (pc[c] = "posCb" /\ pc'[c] = "goCb") => ~HoldsInfo(currentMessages)]_vars

\* C35: however the stream is cut into chunks, once all of it is delivered
\* handleMessage has been handed the lines the engine wrote, each once and
\* whole, in their order
C35_WholeLinesHandledOnce == (stream = <<>> /\ written # <<>>) => handled = written

\* C36: no attempt of evaluatePositionWithRetry runs at a depth greater than
\* the depth requested (the depth of the first attempt), and no attempt at a depth greater than that of the
\* attempt before it
C36_DepthsNonIncreasing ==
    /\ \A i \in TryAt : rlog[i].d <= rlog[1].d
    /\ \A i, j \in TryAt : i < j => rlog[j].d <= rlog[i].d

\* C37: a played move that checkmates loses nothing and is not classified
\* inaccuracy, mistake or blunder, whether or not it is the engine's first
\* move
C37_MatingMoveLosesNothing ==
    (scored = "done" /\ afterInfo.f \in CheckmateFens) =>
        /\ cpLoss = 0
        /\ classification \notin {"inaccuracy", "mistake", "blunder"}

\* C38: evaluatedPositions holds one entry for each move the loop has gone
\* through, the entry of move i in place i, whatever the entries are (book,
\* forced, classified); the report is made when it holds one entry for every
\* move of the game, so a place of even index (counted from 0) holds a move
\* of White and a place of odd index a move of Black
C38_OneEntryPerMoveInOrder ==
    kind[1] = "game" =>
        /\ Len(evaluatedPositions) = index
        /\ \A i \in 1..Len(evaluatedPositions) : evaluatedPositions[i].position = i
        /\ pc[1] = "done" => Len(evaluatedPositions) = positions
\* the report of a game of two moves: a book move, then a move the engine
\* had no lines for
C38_Witness ==
    /\ kind[1] = "game" /\ pc[1] = "done" /\ positions = 2
    /\ Len(evaluatedPositions) = 2
    /\ evaluatedPositions[1].classification = "book"
    /\ evaluatedPositions[2].classification = "forced"
    /\ evaluatedPositions[2].position = 2

\* the last line of the buffer that the parser reads for depth d and rank id
LastAt(msgs, d, id) ==
    Max({j \in ParsableAt(msgs) : msgs[j].d = d /\ LineId(msgs[j]) = id})

\* C39: the line parseAnalysisResults returns for a rank is the last line of
\* that rank and of the deepest depth that the buffer holds
C39_LastReportWins ==
    LET r == parseAnalysisResults(currentMessages) IN
    \A i \in 1..Len(r) :
        r[i] = EngineLine(currentMessages[LastAt(currentMessages, r[i].depth, r[i].id)])

====
